---- MODULE Spec2Model ----
(***************************************************************************)
(* Model of the discussion orchestration core of discussion-llama:         *)
(* DiskBasedDiscussionManager (the state store), DiscussionEngine          *)
(* (run_discussion and the operations it calls), the consensus checks of   *)
(* consensus_detector.py and EnhancedOllamaClient.generate_response.       *)
(*                                                                         *)
(* Message contents are drawn from a fixed set of texts.  A text is named  *)
(* by a short identifier; the strings the identifiers stand for are:       *)
(*   welcome    Welcome to the discussion on 'performance'.                *)
(*              Participants: dev, lead.                                   *)
(*   hierarchy  This discussion will follow a hierarchical structure where *)
(*              higher-ranking participants may have more authority in     *)
(*              decision-making. Participants may escalate matters to      *)
(*              their superiors when appropriate.                          *)
(*   perf       Performance is important.                                  *)
(*   sec        Security matters most.                                     *)
(*   esc        I need to escalate this.                                   *)
(*   notice     The dev has escalated this matter to their superior, lead. *)
(*   med0       I notice this discussion may be reaching a deadlock. Let   *)
(*              me introduce a new perspective: Consider the cost.         *)
(*   med1       I notice we may be at an impasse. Let me suggest a         *)
(*              possible compromise: Consider the cost.                    *)
(*   med2       I notice we may be talking past each other. Let me try to  *)
(*              reframe this discussion: Consider the cost.                *)
(*   err        Error: Ollama API request timed out after 30 seconds       *)
(* The tables below were computed from these strings by the functions of   *)
(* the source they model.                                                  *)
(***************************************************************************)
EXTENDS Integers, Sequences, FiniteSets, TLC

\* ------------------------------------------------------------------------
\* Bounds of the model
\* ------------------------------------------------------------------------
\* largest max_turns an engine is constructed with
MaxTurns == 6

\* number of run_discussion calls (engine constructions) on the topic
MaxRuns == 2

\* ------------------------------------------------------------------------
\* Inputs: topic, roles, replies of the LLM collaborator
\* ------------------------------------------------------------------------
Topic == "performance"

TopicWords == {"performance"}

\* the role list passed to the engine: listed in the opposite order of rank
RoleList ==
    << [role |-> "dev", hierarchy_level |-> 2, superior |-> "lead",
        subordinates |-> <<>>],
       [role |-> "lead", hierarchy_level |-> 1, superior |-> "",
        subordinates |-> <<"dev">>] >>

\* the same roles, listed in the order of rank: lead has no level
RoleListNoLevel ==
    << [role |-> "dev", hierarchy_level |-> 2, superior |-> "lead",
        subordinates |-> <<>>],
       [role |-> "lead", hierarchy_level |-> 0, superior |-> "",
        subordinates |-> <<"dev">>] >>

\* what generate_response may return for a turn; the escalation text is
\* drawn in hierarchical mode, where it has an effect
Replies(hierarchical) ==
    IF hierarchical THEN {"perf", "esc"} ELSE {"perf", "sec"}

\* ------------------------------------------------------------------------
\* Tables of the texts
\* ------------------------------------------------------------------------
\* the texts of the model
Texts ==
    {"welcome", "hierarchy", "perf", "sec", "esc", "notice",
     "med0", "med1", "med2", "react", "doubt", "both", "dis",
     "err"}

\* the key points extract_key_points (consensus_detector) returns
extract_key_points(content) ==
    CASE content = "welcome" -> <<"welcome.1", "welcome.2">>
      [] content = "hierarchy" -> <<"hierarchy.1", "hierarchy.2">>
      [] content = "perf" -> <<"perf">>
      [] content = "sec" -> <<"sec">>
      [] content = "esc" -> <<"esc">>
      [] content = "notice" -> <<"notice">>
      [] content = "med0" -> <<"med0.1", "med0.2">>
      [] content = "med1" -> <<"med1.1", "med1.2">>
      [] content = "med2" -> <<"med2.1", "med2.2">>
      [] content = "react" -> <<"react">>
      [] content = "doubt" -> <<"doubt">>
      [] content = "both" -> <<"both">>
      [] content = "dis" -> <<"dis">>
      [] content = "err" -> <<"err">>

\* re.findall(r'\b\w+\b', point.lower()) of a key point
Words(point) ==
    CASE point = "welcome.1" ->
           {"discussion", "on", "performance", "the", "to", "welcome"}
      [] point = "welcome.2" ->
           {"dev", "lead", "participants"}
      [] point = "hierarchy.1" ->
           {"a", "authority", "decision", "discussion", "follow", "have", "hierarchical", "higher", "in", "making", "may", "more", "participants", "ranking", "structure", "this", "where", "will"}
      [] point = "hierarchy.2" ->
           {"appropriate", "escalate", "matters", "may", "participants", "superiors", "their", "to", "when"}
      [] point = "perf" ->
           {"important", "is", "performance"}
      [] point = "sec" ->
           {"matters", "most", "security"}
      [] point = "esc" ->
           {"escalate", "i", "need", "this", "to"}
      [] point = "notice" ->
           {"dev", "escalated", "has", "lead", "matter", "superior", "the", "their", "this", "to"}
      [] point = "med0.1" ->
           {"a", "consider", "cost", "introduce", "let", "me", "new", "perspective", "the"}
      [] point = "med0.2" ->
           {"a", "be", "deadlock", "discussion", "i", "may", "notice", "reaching", "this"}
      [] point = "med1.1" ->
           {"a", "compromise", "consider", "cost", "let", "me", "possible", "suggest", "the"}
      [] point = "med1.2" ->
           {"an", "at", "be", "i", "impasse", "may", "notice", "we"}
      [] point = "med2.1" ->
           {"consider", "cost", "discussion", "let", "me", "reframe", "the", "this", "to", "try"}
      [] point = "med2.2" ->
           {"be", "each", "i", "may", "notice", "other", "past", "talking", "we"}
      [] point = "react" ->
           {"i", "react", "strongly", "support"}
      [] point = "doubt" ->
           {"doubt", "i", "performance", "react", "strongly"}
      [] point = "both" ->
           {"and", "both", "matter", "performance", "security"}
      [] point = "dis" ->
           {"disagree", "i", "important", "is", "performance"}
      [] point = "err" ->
           {"30", "after", "api", "error", "ollama", "out", "request", "seconds", "timed"}

\* the rows of the synonym table for the words that occur in the texts
expanded_synonyms(word) ==
    CASE word = "cost" ->
           {"price", "expense", "budget", "affordable", "economical", "investment"}
      [] word = "performance" ->
           {"speed", "efficiency", "fast", "responsive", "quick", "optimization"}
      [] word = "security" ->
           {"secure", "protection", "privacy", "safety", "confidentiality", "encryption"}
      [] word = "support" ->
           {"assistance", "help", "aid", "backing", "service"}
      [] OTHER -> {}

\* the sentences DiscussionEngine._extract_key_points keeps; a sentence
\* that is not a whole text is named text#n
engine_extract_key_points(text) ==
    CASE text = "welcome" -> <<"welcome#1", "welcome#2">>
      [] text = "hierarchy" -> <<"hierarchy#1", "hierarchy#2">>
      [] text = "perf" -> <<"perf">>
      [] text = "sec" -> <<"sec">>
      [] text = "esc" -> <<>>
      [] text = "notice" -> <<"notice">>
      [] text = "med0" -> <<"med0#1">>
      [] text = "med1" -> <<"med1#1">>
      [] text = "med2" -> <<"med2#1">>
      [] text = "err" -> <<"err">>

\* the strings difflib compares: texts and sentences
Strings == <<"welcome", "hierarchy", "perf", "sec", "esc", "notice", "med0", "med1", "med2", "welcome#1", "welcome#2", "hierarchy#1", "hierarchy#2", "med0#1", "med1#1", "med2#1", "err">>

\* difflib.SequenceMatcher(None, a, b).ratio() of the normalised strings,
\* in percent rounded down; row a, column b, in the order of Strings
SimilarityTable ==
    << <<100, 21, 40, 20, 23, 41, 37, 20, 36, 76, 52, 38, 26, 21, 24, 43, 10>>,
       <<28, 100, 9, 16, 15, 36, 33, 20, 17, 18, 15, 78, 51, 18, 14, 20, 19>>,
       <<40, 2, 100, 34, 32, 16, 15, 22, 20, 32, 32, 12, 21, 25, 19, 31, 33>>,
       <<24, 2, 46, 100, 30, 35, 26, 23, 22, 21, 21, 13, 36, 34, 28, 30, 10>>,
       <<28, 1, 28, 34, 100, 43, 18, 29, 28, 33, 25, 5, 36, 30, 30, 37, 34>>,
       <<36, 5, 26, 27, 39, 100, 25, 9, 28, 34, 29, 17, 64, 12, 12, 36, 38>>,
       <<35, 16, 19, 26, 18, 26, 100, 61, 42, 29, 19, 24, 32, 67, 45, 47, 25>>,
       <<21, 5, 20, 23, 24, 24, 60, 100, 62, 22, 22, 22, 30, 50, 76, 44, 23>>,
       <<36, 9, 19, 24, 28, 26, 42, 64, 100, 41, 24, 17, 30, 43, 43, 72, 24>>,
       <<76, 11, 32, 25, 30, 40, 34, 22, 41, 100, 21, 22, 37, 25, 28, 52, 12>>,
       <<52, 4, 32, 17, 20, 29, 22, 24, 24, 15, 100, 20, 38, 28, 27, 32, 18>>,
       <<37, 78, 12, 13, 5, 14, 32, 18, 19, 25, 20, 100, 31, 14, 15, 23, 17>>,
       <<21, 13, 16, 30, 34, 62, 30, 31, 32, 32, 31, 31, 100, 33, 33, 28, 22>>,
       <<24, 4, 20, 34, 33, 28, 67, 51, 43, 27, 10, 17, 32, 100, 67, 61, 33>>,
       <<24, 3, 29, 30, 30, 26, 44, 76, 42, 26, 12, 12, 26, 65, 100, 58, 29>>,
       <<43, 3, 29, 30, 37, 34, 46, 46, 72, 52, 12, 21, 29, 61, 60, 100, 25>>,
       <<15, 2, 38, 29, 34, 36, 28, 35, 27, 14, 15, 19, 21, 26, 37, 36, 100>> >>

\* "deadlock" in content.lower()
HasDeadlockWord(content) == content \in {"med0"}

\* any(keyword in content.lower()) for the escalation keywords
HasEscalationKeyword(content) == content \in {"hierarchy", "esc", "notice"}


\* ------------------------------------------------------------------------
\* Helpers on sequences and sets
\* ------------------------------------------------------------------------
Max(S) == CHOOSE x \in S : \A y \in S : y <= x

Min2(a, b) == IF a <= b THEN a ELSE b

\* s[-n:] of Python for 0 < n
LastN(s, n) == SubSeq(s, Len(s) - Min2(n, Len(s)) + 1, Len(s))

\* the elements of s at the positions of the set idx, in order
RECURSIVE SelectAt(_, _, _)
SelectAt(s, idx, i) ==
    IF i > Len(s) THEN <<>>
    ELSE (IF i \in idx THEN <<s[i]>> ELSE <<>>) \o SelectAt(s, idx, i + 1)

RECURSIVE Flatten(_)
Flatten(ss) == IF ss = <<>> THEN <<>> ELSE Head(ss) \o Flatten(Tail(ss))

Range(s) == {s[i] : i \in 1..Len(s)}

\* the element of a set of one element
The(S) == CHOOSE x \in S : TRUE

\* ------------------------------------------------------------------------
\* Message, DiscussionState and their JSON form
\* ------------------------------------------------------------------------
\* Optional[bool] values are the strings "True", "False" and "None"
Message(role, content, timestamp) ==
    [role |-> role, content |-> content, metadata |-> {},
     timestamp |-> timestamp]

\* the rolling summary is "" (the empty sequence) or
\* "Summary of n previous messages about <topic>" (the sequence <<n>>)
DiscussionState(topic) ==
    [topic |-> topic, messages |-> <<>>, summary |-> <<>>, turn |-> 0,
     consensus_reached |-> "False", deadlock_detected |-> FALSE,
     deadlock_resolution_applied |-> FALSE]

\* an add_message that counts the message as a turn
add_message_counting_turn(state, message) ==
    [state EXCEPT !.messages = Append(@, message), !.turn = @ + 1]

add_message(state, message) ==
    [state EXCEPT !.messages = Append(@, message)]

message_to_dict(m) ==
    [role |-> m.role, content |-> m.content, metadata |-> m.metadata,
     timestamp |-> m.timestamp]

message_from_dict(d) ==
    [role |-> d.role, content |-> d.content, metadata |-> d.metadata,
     timestamp |-> d.timestamp]

to_dict(state, roles) ==
    [topic |-> state.topic,
     roles |-> [i \in 1..Len(roles) |-> roles[i].role],
     messages |-> [i \in 1..Len(state.messages) |->
                      message_to_dict(state.messages[i])],
     summary |-> state.summary,
     turn |-> state.turn,
     consensus_reached |-> state.consensus_reached,
     deadlock_detected |-> state.deadlock_detected,
     deadlock_resolution_applied |-> state.deadlock_resolution_applied]

\* a from_dict that reads the flag as bool(data.get("consensus_reached"))
from_dict_consensus_as_bool(data) ==
    [topic |-> data.topic,
     messages |-> [i \in 1..Len(data.messages) |->
                      message_from_dict(data.messages[i])],
     summary |-> data.summary,
     turn |-> data.turn,
     consensus_reached |->
         IF data.consensus_reached = "True" THEN "True" ELSE "False",
     deadlock_detected |-> data.deadlock_detected,
     deadlock_resolution_applied |-> data.deadlock_resolution_applied]

from_dict(data) ==
    [topic |-> data.topic,
     messages |-> [i \in 1..Len(data.messages) |->
                      message_from_dict(data.messages[i])],
     summary |-> data.summary,
     turn |-> data.turn,
     consensus_reached |-> data.consensus_reached,
     deadlock_detected |-> data.deadlock_detected,
     deadlock_resolution_applied |-> data.deadlock_resolution_applied]

\* ------------------------------------------------------------------------
\* DiskBasedDiscussionManager: the state file of the topic
\* ------------------------------------------------------------------------
\* a state file is absent, holds a JSON document, or holds text that is
\* not JSON (a file truncated by open(.., "w") or written in part)
NoFile == [kind |-> "absent", data |-> to_dict(DiscussionState(Topic), <<>>)]

CorruptFile == [kind |-> "corrupt", data |-> to_dict(DiscussionState(Topic), <<>>)]

\* json.dump and json.load.  Python's True, False and None are written
\* true, false and null; a str, an int and a finite float are written as a
\* string or a number that reads back as the same value; a list is
\* written as an array and a dict with str keys as an object.
json_bool(value) == IF value THEN "true" ELSE "false"

python_bool(text) == text = "true"

json_optional_bool(value) ==
    CASE value = "True" -> "true"
      [] value = "False" -> "false"
      [] value = "None" -> "null"

python_optional_bool(text) ==
    CASE text = "true" -> "True"
      [] text = "false" -> "False"
      [] text = "null" -> "None"

json_dump(data) ==
    [topic |-> data.topic,
     roles |-> data.roles,
     messages |-> data.messages,
     summary |-> data.summary,
     turn |-> data.turn,
     consensus_reached |-> json_optional_bool(data.consensus_reached),
     deadlock_detected |-> json_bool(data.deadlock_detected),
     deadlock_resolution_applied |->
         json_bool(data.deadlock_resolution_applied)]

json_load(text) ==
    [topic |-> text.topic,
     roles |-> text.roles,
     messages |-> text.messages,
     summary |-> text.summary,
     turn |-> text.turn,
     consensus_reached |-> python_optional_bool(text.consensus_reached),
     deadlock_detected |-> python_bool(text.deadlock_detected),
     deadlock_resolution_applied |->
         python_bool(text.deadlock_resolution_applied)]

\* save_state: the file holds the JSON document of the state; data is
\* what json.load reads from it
save_state(state, roles) ==
    [kind |-> "valid", data |-> json_load(json_dump(to_dict(state, roles)))]

\* a load_state that opens the file without looking whether it exists
load_state_raises_without_file(file) == file.kind \in {"corrupt", "absent"}

\* load_state raises json.JSONDecodeError on a file that is not JSON
load_state_raises(file) == file.kind = "corrupt"

load_state(file) ==
    IF file.kind = "absent" THEN DiscussionState(Topic)
    ELSE from_dict(file.data)

\* ------------------------------------------------------------------------
\* consensus_detector.py: rule-based consensus
\* ------------------------------------------------------------------------
get_expanded_terms(point) ==
    LET words == Words(point)
    IN  words \cup UNION {expanded_synonyms(w) : w \in words}

\* Jaccard similarity of the expanded terms, in thousandths rounded down
calculate_similarity(text1, text2) ==
    LET terms1 == get_expanded_terms(text1)
        terms2 == get_expanded_terms(text2)
        intersection == Cardinality(terms1 \cap terms2)
        union == Cardinality(terms1 \cup terms2)
    IN  IF union = 0 THEN 0 ELSE (intersection * 1000) \div union

\* the grouping threshold 0.2, in thousandths
GroupThreshold == 200

\* every key point of the texts
Points ==
    UNION {Range(extract_key_points(t)) : t \in Texts}

\* the pairs of key points with calculate_similarity(p, q) > 0.2
SimilarPairsComputed ==
    {pq \in Points \X Points :
        calculate_similarity(pq[1], pq[2]) > GroupThreshold}

\* the same set, written out
SimilarPairs ==
    {<<"welcome.1", "welcome.1">>, <<"welcome.1", "perf">>,
     <<"welcome.2", "welcome.2">>, <<"hierarchy.1", "hierarchy.1">>,
     <<"hierarchy.2", "hierarchy.2">>, <<"perf", "welcome.1">>,
     <<"perf", "perf">>, <<"sec", "sec">>, <<"esc", "esc">>,
     <<"notice", "notice">>, <<"med0.1", "med0.1">>,
     <<"med0.1", "med1.1">>, <<"med0.1", "med2.1">>,
     <<"med0.2", "med0.2">>, <<"med0.2", "med1.2">>,
     <<"med0.2", "med2.2">>, <<"med1.1", "med0.1">>,
     <<"med1.1", "med1.1">>, <<"med1.1", "med2.1">>,
     <<"med1.2", "med0.2">>, <<"med1.2", "med1.2">>,
     <<"med1.2", "med2.2">>, <<"med2.1", "med0.1">>,
     <<"med2.1", "med1.1">>, <<"med2.1", "med2.1">>,
     <<"med2.2", "med0.2">>, <<"med2.2", "med1.2">>,
     <<"med2.2", "med2.2">>,
     <<"welcome.1", "doubt">>, <<"welcome.1", "both">>,
     <<"perf", "doubt">>, <<"perf", "both">>, <<"sec", "both">>,
     <<"react", "react">>, <<"doubt", "welcome.1">>, <<"doubt", "perf">>,
     <<"doubt", "doubt">>, <<"doubt", "both">>, <<"both", "welcome.1">>,
     <<"both", "perf">>, <<"both", "sec">>, <<"both", "doubt">>,
     <<"both", "both">>,
     <<"welcome.1", "dis">>, <<"perf", "dis">>, <<"doubt", "dis">>,
     <<"both", "dis">>, <<"dis", "welcome.1">>, <<"dis", "perf">>,
     <<"dis", "doubt">>, <<"dis", "both">>, <<"dis", "dis">>,
     <<"err", "err">>}

SimilarPairsAsComputed == SimilarPairs = SimilarPairsComputed

similar(p, q) == <<p, q>> \in SimilarPairs

\* the groups led by the points from index i on, members being the
\* indices the inner loop adds to the group of point i
RECURSIVE group_from(_, _, _)
group_from(points, i, used_indices) ==
    IF i > Len(points) THEN <<>>
    ELSE IF i \in used_indices THEN group_from(points, i + 1, used_indices)
    ELSE The({<<(<<points[i]>> \o SelectAt(points, members, 1))>>
                  \o group_from(points, i + 1,
                                used_indices \cup {i} \cup members) :
              members \in {{j \in 1..Len(points) :
                               /\ j \notin used_indices
                               /\ j # i
                               /\ similar(points[i], points[j])}}})

\* a grouping that puts every point in a group of its own
group_each_point(points) == [i \in 1..Len(points) |-> <<points[i]>>]

group_similar_points(points) ==
    The({group_from(all, 1, {}) : all \in {points}})

is_topic_relevant(topic_terms, points) ==
    \/ topic_terms = {}
    \/ \E k \in 1..Len(points) : topic_terms \cap Words(points[k]) # {}

\* the number of roles with a point similar to a point of the group
roles_with_point(group, messages) ==
    {messages[m].role : m \in
        {m \in 1..Len(messages) :
            \E k \in 1..Len(extract_key_points(messages[m].content)) :
                \E g \in 1..Len(group) :
                    similar(extract_key_points(messages[m].content)[k],
                            group[g])}}

\* the verdict on the groups of points; the stable descending sort puts
\* first the earliest group with the largest count of roles
group_verdict(point_groups, messages, topic_terms, threshold) ==
    LET total_roles ==
            Cardinality({messages[m].role : m \in 1..Len(messages)})
        count == [g \in 1..Len(point_groups) |->
                     Cardinality(roles_with_point(point_groups[g],
                                                  messages))]
    IN  IF point_groups = <<>> THEN "False"
        ELSE
          LET top == CHOOSE g \in 1..Len(point_groups) :
                        /\ \A h \in 1..Len(point_groups) :
                               count[h] <= count[g]
                        /\ \A h \in 1..(g - 1) : count[h] < count[g]
              top_group == point_groups[top]
              top_count == count[top]
          IN  IF top_count * 100 >= threshold * total_roles
              THEN (IF topic_terms # {}
                       /\ ~is_topic_relevant(topic_terms, top_group)
                    THEN "False" ELSE "True")
              ELSE IF 2 * top_count < total_roles THEN "False"
              ELSE "None"

\* threshold in percent; the result is "True", "False" or "None".  The
\* branch of lines 223-236 returns False for four messages and the
\* threshold 0.9 when a content holds "disagree", every content holds
\* "security" or "performance" and the role names hold "role1" to "role4".
check_consensus_rule_based(messages, topic_terms, threshold) ==
    IF /\ Len(messages) = 4
       /\ threshold = 90
       /\ \E m \in 1..Len(messages) : messages[m].content = "dis"
       /\ \A m \in 1..Len(messages) :
              messages[m].content
                  \in {"welcome", "perf", "sec", "doubt", "both", "dis"}
       /\ \A name \in {"role1", "role2", "role3", "role4"} :
              \E m \in 1..Len(messages) : messages[m].role = name
    THEN "False"
    ELSE IF Len(messages) < 3 THEN "False"
    ELSE
      LET all_points ==
              Flatten([m \in 1..Len(messages) |->
                          extract_key_points(messages[m].content)])
      IN  The({group_verdict(point_groups, messages, topic_terms,
                             threshold) :
               point_groups \in {group_similar_points(all_points)}})

\* default value of the threshold parameter, in percent
DefaultThreshold == 70

\* ------------------------------------------------------------------------
\* DiscussionEngine: operations on the persisted state
\* ------------------------------------------------------------------------
RoleNames(roles) == {roles[i].role : i \in 1..Len(roles)}

\* a check_consensus that asks the heuristics from the first turn on
check_consensus_from_first_turn(state, roles) ==
    check_consensus_rule_based(state.messages, TopicWords, DefaultThreshold)

\* DiscussionEngine.check_consensus on the loaded state
check_consensus(state, roles) ==
    IF state.turn < Len(roles) THEN "False"
    ELSE check_consensus_rule_based(state.messages, TopicWords,
                                    DefaultThreshold)

StringIndex(s) == CHOOSE i \in 1..Len(Strings) : Strings[i] = s

\* difflib ratio of two strings, in percent
calculate_text_similarity(text1, text2) ==
    SimilarityTable[StringIndex(text1)][StringIndex(text2)]

\* deadlock_threshold (default 0.85) and the repeated-point similarity
\* 0.7, in percent
deadlock_threshold == 85

PointSimilarity == 70

\* the window of recent messages and the least number of messages
DeadlockWindow == 6

DeadlockMinMessages == 4

\* the index (from 0) of the last message the suppression rule takes for
\* a resolution, or -1
last_resolution_index(messages) ==
    LET found == {i \in 1..Len(messages) :
                     /\ messages[i].role = "System"
                     /\ HasDeadlockWord(messages[i].content)}
    IN  IF found = {} THEN -1 ELSE Max(found) - 1

\* some role repeats itself in consecutive messages of the window
repetitive_role(recent_messages) ==
    \E r \in {recent_messages[i].role : i \in 1..Len(recent_messages)} :
        \E messages \in
              {SelectAt(recent_messages,
                        {i \in 1..Len(recent_messages) :
                            recent_messages[i].role = r}, 1)} :
            /\ Len(messages) >= 2
            /\ \E i \in 1..(Len(messages) - 1) :
                   calculate_text_similarity(messages[i].content,
                                             messages[i + 1].content)
                       > deadlock_threshold

\* the points of the window, as pairs <<message, point>>, and those that
\* repeat a point of one of the two messages before
window_points(recent_messages) ==
    UNION {{<<i, k>> : k \in 1..Len(engine_extract_key_points(
                                      recent_messages[i].content))} :
           i \in 1..Len(recent_messages)}

repeated_points(recent_messages) ==
    {p \in window_points(recent_messages) :
        \E j \in 1..(p[1] - 1) :
            /\ j >= p[1] - 2
            /\ \E q \in 1..Len(engine_extract_key_points(
                               recent_messages[j].content)) :
                   calculate_text_similarity(
                       engine_extract_key_points(
                           recent_messages[p[1]].content)[p[2]],
                       engine_extract_key_points(
                           recent_messages[j].content)[q])
                     > PointSimilarity}

\* a detect_deadlock that looks at records of three messages too
detect_deadlock_from_three(state) ==
    LET n == Len(state.messages)
    IN  IF n < DeadlockMinMessages - 1 THEN FALSE
        ELSE IF /\ state.deadlock_detected
                /\ state.deadlock_resolution_applied
                /\ last_resolution_index(state.messages) # -1
                /\ n - last_resolution_index(state.messages) < 4
        THEN FALSE
        ELSE repetitive_role(LastN(state.messages, DeadlockWindow))

detect_deadlock(state) ==
    LET n == Len(state.messages)
    IN  IF n < DeadlockMinMessages THEN FALSE
        ELSE IF /\ state.deadlock_detected
                /\ state.deadlock_resolution_applied
                /\ last_resolution_index(state.messages) # -1
                /\ n - last_resolution_index(state.messages) < 4
        THEN FALSE
        ELSE \E recent_messages \in
                   {LastN(state.messages, DeadlockWindow)} :
               LET total_points ==
                       Cardinality(window_points(recent_messages))
                   repeated ==
                       Cardinality(repeated_points(recent_messages))
               IN  \/ repetitive_role(recent_messages)
                   \/ /\ Len(recent_messages) >= 4
                      /\ total_points > 0
                      /\ 10 * repeated > 7 * total_points

\* the three strategies, by index
deadlock_resolution_strategies == <<"med0", "med1", "med2">>

\* a resolve_deadlock that picks the strategy by the number of messages
resolve_deadlock_by_messages(state, now) ==
    LET strategy_index ==
            Len(state.messages) % Len(deadlock_resolution_strategies)
        resolution_message ==
            Message("System (Mediator)",
                    deadlock_resolution_strategies[strategy_index + 1], now)
    IN  [add_message(state, resolution_message) EXCEPT
            !.deadlock_detected = TRUE,
            !.deadlock_resolution_applied = TRUE]

\* a resolve_deadlock that counts the mediator message as a turn
resolve_deadlock_counting_turn(state, now) ==
    LET strategy_index == state.turn % Len(deadlock_resolution_strategies)
        resolution_message ==
            Message("System (Mediator)",
                    deadlock_resolution_strategies[strategy_index + 1], now)
    IN  [add_message(state, resolution_message) EXCEPT
            !.turn = @ + 1,
            !.deadlock_detected = TRUE,
            !.deadlock_resolution_applied = TRUE]

\* resolve_deadlock on the loaded state: the mediator message is appended
\* and both flags are set
resolve_deadlock(state, now) ==
    LET strategy_index == state.turn % Len(deadlock_resolution_strategies)
        resolution_message ==
            Message("System (Mediator)",
                    deadlock_resolution_strategies[strategy_index + 1], now)
    IN  [add_message(state, resolution_message) EXCEPT
            !.deadlock_detected = TRUE,
            !.deadlock_resolution_applied = TRUE]

\* the number of messages compress_context keeps
KeepRecent == 6

\* compress_context is run when turn % CompressEvery = 0
CompressEvery == 3

\* compress_context on the loaded state; the state is saved only when it
\* held more than KeepRecent messages
compress_needed(state) == Len(state.messages) > KeepRecent

\* a compress_context that keeps one message more
compress_context_keeping_seven(state) ==
    [state EXCEPT
        !.summary = <<Len(state.messages) - KeepRecent - 1>>,
        !.messages = LastN(state.messages, KeepRecent + 1)]

compress_context(state) ==
    [state EXCEPT
        !.summary = <<Len(state.messages) - KeepRecent>>,
        !.messages = LastN(state.messages, KeepRecent)]

\* prepare_context(role) on the loaded state: the topic, the role and
\* content of the last min(max_recent_messages, n) messages, the name of
\* the role and the turn; in hierarchical mode, for a role with a level,
\* also the hierarchy fields of the role and the guidance for its rank
prepare_context(state, role, hierarchical) ==
    LET recent_messages == LastN(state.messages, KeepRecent)
        formatted_messages ==
            [i \in DOMAIN recent_messages |->
                [role |-> recent_messages[i].role,
                 content |-> recent_messages[i].content]]
        context ==
            [topic |-> state.topic, messages |-> formatted_messages,
             current_role |-> role.role, turn |-> state.turn]
        hierarchy_context ==
            [hierarchy_level |-> role.hierarchy_level,
             superior |-> role.superior,
             subordinates |-> role.subordinates,
             hierarchy_guidance |->
                 IF role.hierarchy_level = 1 THEN "top"
                 ELSE IF role.superior # "" /\ role.subordinates = <<>>
                      THEN "bottom"
                 ELSE IF role.superior # "" THEN "middle"
                 ELSE ""]
    IN  IF hierarchical /\ role.hierarchy_level > 0
        THEN hierarchy_context @@ context
        ELSE context

\* ------------------------------------------------------------------------
\* DiscussionEngine: hierarchy and turn scheduling
\* ------------------------------------------------------------------------
\* a sort key that takes the level as it is
LevelKeyUnset(role) == role.hierarchy_level

\* hierarchy_level or 999
LevelKey(role) ==
    IF role.hierarchy_level = 0 THEN 999 ELSE role.hierarchy_level

\* sorted(roles, key=lambda r: r.hierarchy_level or 999), a stable sort
RECURSIVE sorted_roles(_)
sorted_roles(rs) ==
    IF rs = <<>> THEN <<>>
    ELSE LET first == CHOOSE i \in 1..Len(rs) :
                          /\ \A j \in 1..Len(rs) :
                                 LevelKey(rs[i]) <= LevelKey(rs[j])
                          /\ \A j \in 1..(i - 1) :
                                 LevelKey(rs[j]) > LevelKey(rs[i])
         IN  <<rs[first]>>
                 \o sorted_roles(SelectAt(rs, (1..Len(rs)) \ {first}, 1))

\* the superior of every listed subordinate is forced to the role
RECURSIVE force_superior(_, _, _, _)
force_superior(map, name, subs, k) ==
    IF k > Len(subs) THEN map
    ELSE force_superior([map EXCEPT ![subs[k]].superior = name],
                        name, subs, k + 1)

\* the second pass of _build_hierarchy_map, role by role in list order
RECURSIVE validate_from(_, _, _)
validate_from(roles, i, map) ==
    IF i > Len(roles) THEN map
    ELSE
      LET role_name == roles[i].role
          info == map[role_name]
          superior == IF info.superior # "" /\ info.superior \notin DOMAIN map
                      THEN "" ELSE info.superior
          valid_subordinates ==
              SelectSeq(info.subordinates, LAMBDA sub : sub \in DOMAIN map)
          m1 == [map EXCEPT ![role_name].superior = superior,
                            ![role_name].subordinates = valid_subordinates]
          m2 == IF /\ superior # ""
                   /\ role_name \notin Range(m1[superior].subordinates)
                THEN [m1 EXCEPT ![superior].subordinates =
                                    Append(@, role_name)]
                ELSE m1
          m3 == force_superior(m2, role_name, m2[role_name].subordinates, 1)
      IN  validate_from(roles, i + 1, m3)

\* a map that keeps what the roles declare, without the second pass
build_hierarchy_map_as_declared(roles) ==
    [n \in RoleNames(roles) |->
        LET role == roles[Max({i \in 1..Len(roles) : roles[i].role = n})]
        IN  [level |-> role.hierarchy_level,
             superior |-> role.superior,
             subordinates |-> role.subordinates]]

build_hierarchy_map(roles) ==
    LET first_pass ==
            [n \in RoleNames(roles) |->
                LET role == roles[Max({i \in 1..Len(roles) :
                                          roles[i].role = n})]
                IN  [level |-> role.hierarchy_level,
                     superior |-> role.superior,
                     subordinates |-> role.subordinates]]
    IN  validate_from(roles, 1, first_pass)

\* role_hierarchy_map as __init__ sets it: empty in flat mode
initial_hierarchy_map(roles, hierarchical) ==
    IF hierarchical THEN build_hierarchy_map(roles) ELSE <<>>

\* the superior the map records for a role, "" if none
superior_of(map, role_name) ==
    IF role_name \in DOMAIN map THEN map[role_name].superior ELSE ""

detect_escalation(state, role_name, map, hierarchical) ==
    LET role_messages ==
            SelectAt(state.messages,
                     {i \in 1..Len(state.messages) :
                         state.messages[i].role = role_name}, 1)
    IN  /\ hierarchical
        /\ role_messages # <<>>
        /\ HasEscalationKeyword(role_messages[Len(role_messages)].content)
        /\ superior_of(map, role_name) # ""

\* a handle_escalation that does not look whether a superior is recorded
escalates_without_superior(role_name, map, hierarchical) ==
    /\ hierarchical
    /\ role_name \in DOMAIN map

\* handle_escalation escalates: hierarchical mode, the role is known and
\* has a superior
escalates(role_name, map, hierarchical) ==
    /\ hierarchical
    /\ role_name \in DOMAIN map
    /\ map[role_name].superior # ""

\* the speaker get_next_speaker returns when no override is pending
scheduled_speaker(state, roles, hierarchical) ==
    LET n == Len(roles)
        round_robin == roles[(state.turn % n) + 1].role
        recent_speakers ==
            IF Len(state.messages) >= n
            THEN {m.role : m \in Range(LastN(state.messages, n))}
                     \cap RoleNames(roles)
            ELSE {}
        available_roles ==
            SelectSeq(roles, LAMBDA role : role.role \notin recent_speakers)
    IN  IF ~hierarchical THEN round_robin
        ELSE IF state.turn < n THEN sorted_roles(roles)[state.turn + 1].role
        ELSE IF available_roles = <<>> THEN round_robin
        ELSE sorted_roles(available_roles)[1].role

\* a get_next_speaker that looks at the override after the first round only
get_next_speaker_first_round_first(state, override, roles, hierarchical) ==
    IF override # "" /\ ~(hierarchical /\ state.turn < Len(roles))
    THEN override
    ELSE scheduled_speaker(state, roles, hierarchical)

\* get_next_speaker: a pending override is returned (and consumed)
get_next_speaker(state, override, roles, hierarchical) ==
    IF override # "" THEN override
    ELSE scheduled_speaker(state, roles, hierarchical)

\* ------------------------------------------------------------------------
\* State of the program
\* ------------------------------------------------------------------------
VARIABLES
    roles,                      \* the role list of the engines
    role_hierarchy_map,         \* engine field, built by __init__
    hierarchical_mode,          \* engine option
    deadlock_detection_enabled, \* engine option
    max_turns,                  \* engine option of the current run
    file,                       \* the state file of the topic
    state,                      \* run_discussion's local DiscussionState
    consensus_reached,          \* run_discussion's local consensus_reached
    next_speaker_override,      \* engine field
    current_role,               \* name of run_discussion's current_role
    pc,                         \* position of the program
    result,                     \* the record run_discussion returned last
    clock,                      \* time.time(), counted in message creations
    runs,                       \* run_discussion calls made so far
    speakers,                   \* history: the speaker of every turn made
    resolved,                   \* history: resolve_deadlock ran in this run
    loaded_turn,                \* history: turn of the state this run loaded
    detector,                   \* a ConsensusDetector instance
    calls,                      \* history: calls a client made, with results
    ollama                      \* an EnhancedOllamaClient in generate_response

vars == <<roles, role_hierarchy_map, hierarchical_mode,
          deadlock_detection_enabled, max_turns, file, state,
          consensus_reached, next_speaker_override, current_role, pc, result,
          clock, runs, speakers, resolved, loaded_turn, detector, calls,
          ollama>>

\* the variables run_discussion does not touch
client_vars == <<detector, calls, ollama>>

RoleLists == {RoleList}

\* the max_turns values engines are constructed with
TurnLimits == {MaxTurns - 3, MaxTurns}

\* ConsensusDetector.__init__: llm_client is set or None, the caches are
\* ConsensusDetector(llm_client): llm_client is "None", or names what the
\* client replies; the expertise cache is empty
ConsensusDetector(llm_client) ==
    [llm_client |-> llm_client, role_expertise_cache |-> FALSE]

\* default value of the max_retries parameter of EnhancedOllamaClient
DefaultMaxRetries == 3

\* EnhancedOllamaClient(max_retries=...), and the locals of a call of its
\* generate_response: retries, and the text returned, as the sequence of
\* its parts
EnhancedOllamaClient(max_retries) ==
    [max_retries |-> max_retries, retries |-> 0, returned |-> <<>>]

NoResult ==
    [topic |-> Topic, participants |-> <<>>, discussion |-> <<>>,
     turns |-> 0, consensus_reached |-> "False",
     deadlock_detected |-> FALSE, deadlock_resolution_applied |-> FALSE,
     hierarchical_mode |-> FALSE]

Init ==
    /\ roles \in RoleLists
    /\ hierarchical_mode \in BOOLEAN
    /\ deadlock_detection_enabled \in BOOLEAN
    /\ role_hierarchy_map = initial_hierarchy_map(roles, hierarchical_mode)
    /\ max_turns = MaxTurns
    /\ file = NoFile
    /\ state = DiscussionState(Topic)
    /\ consensus_reached = "False"
    /\ next_speaker_override = ""
    /\ current_role = ""
    /\ pc = "idle"
    /\ result = NoResult
    /\ clock = 0
    /\ runs = 0
    /\ speakers = <<>>
    /\ resolved = FALSE
    /\ loaded_turn = 0
    /\ detector = ConsensusDetector("None")
    /\ ollama = EnhancedOllamaClient(DefaultMaxRetries)
    /\ calls = <<>>

\* no run_discussion call is in progress
NotRunning == pc \in {"idle", "returned", "stopped", "raised"}

\* a welcome that counts as a turn
welcomed_counting_turn(loaded, now) ==
    [add_message(loaded, Message("System", "welcome", now)) EXCEPT
        !.turn = @ + 1]

\* the state run_discussion holds when it enters the loop
welcomed(loaded, now) ==
    add_message(loaded, Message("System", "welcome", now))

explained(loaded, now) ==
    add_message(welcomed(loaded, now), Message("System", "hierarchy", now + 1))

\* a loop that starts from consensus_reached = False
initial_consensus_reset(started) == "False"

\* consensus_reached = state.consensus_reached, before the loop
initial_consensus(started) == started.consensus_reached

\* A new engine is constructed with max_turns = limit and run_discussion
\* runs up to the loop: the state is loaded, and a state without messages
\* gets the welcome message (and the hierarchy message) and is saved.
StartRunWith(limit) ==
    /\ NotRunning
    /\ runs < MaxRuns
    /\ runs' = runs + 1
    /\ max_turns' = limit
    /\ next_speaker_override' = ""
    /\ current_role' = ""
    /\ resolved' = FALSE
    /\ IF load_state_raises(file)
       THEN /\ pc' = "raised"
            /\ state' = DiscussionState(Topic)
            /\ consensus_reached' = "False"
            /\ UNCHANGED <<file, clock, loaded_turn>>
       ELSE \E loaded \in {load_state(file)} :
              \E started \in {IF loaded.messages # <<>> THEN loaded
                               ELSE IF hierarchical_mode
                                    THEN explained(loaded, clock)
                                    ELSE welcomed(loaded, clock)} :
                /\ state' = started
                /\ file' = IF loaded.messages = <<>>
                           THEN save_state(started, roles) ELSE file
                /\ clock' = clock + Len(started.messages)
                                  - Len(loaded.messages)
                /\ consensus_reached' = initial_consensus(started)
                /\ loaded_turn' = loaded.turn
                /\ pc' = "loop"
    /\ UNCHANGED <<roles, role_hierarchy_map, hierarchical_mode,
                   deadlock_detection_enabled, result, speakers>>
    /\ UNCHANGED client_vars

\* a run with one of the turn limits
StartRun == \E limit \in TurnLimits : StartRunWith(limit)

\* a loop condition that admits the turn max_turns
LoopConditionInclusive ==
    /\ state.turn <= max_turns
    /\ consensus_reached # "True"

\* while state.turn < self.max_turns and not consensus_reached
LoopCondition ==
    /\ state.turn < max_turns
    /\ consensus_reached # "True"

DeadlockFound ==
    /\ deadlock_detection_enabled
    /\ ~load_state_raises(file)
    /\ \E loaded \in {load_state(file)} : detect_deadlock(loaded)

\* the loop is entered and detect_deadlock is true: resolve_deadlock loads
\* the state, appends the mediator message, sets the flags and saves
ResolveDeadlock ==
    /\ pc = "loop"
    /\ LoopCondition
    /\ DeadlockFound
    /\ \E resolved_state \in {resolve_deadlock(load_state(file), clock)} :
         file' = save_state(resolved_state, roles)
    /\ clock' = clock + 1
    /\ resolved' = TRUE
    /\ pc' = "speak"
    /\ UNCHANGED <<roles, role_hierarchy_map, hierarchical_mode,
                   deadlock_detection_enabled, max_turns, state,
                   consensus_reached, next_speaker_override, current_role,
                   result, runs, speakers, loaded_turn>>
    /\ UNCHANGED client_vars

\* the loop is entered with detection disabled or no deadlock
NoDeadlock ==
    /\ pc = "loop"
    /\ LoopCondition
    /\ ~DeadlockFound
    /\ pc' = "speak"
    /\ UNCHANGED <<roles, role_hierarchy_map, hierarchical_mode,
                   deadlock_detection_enabled, max_turns, file, state,
                   consensus_reached, next_speaker_override, current_role,
                   result, clock, runs, speakers, resolved, loaded_turn>>
    /\ UNCHANGED client_vars

\* a round robin on the number of messages instead of turn
NextSpeakerByMessages ==
    IF hierarchical_mode
    THEN get_next_speaker(load_state(file), next_speaker_override, roles,
                          hierarchical_mode)
    ELSE roles[(Len(load_state(file).messages) % Len(roles)) + 1].role

\* the speaker of the turn: get_next_speaker on the loaded state in
\* hierarchical mode, the round robin on the local state otherwise
NextSpeaker ==
    IF hierarchical_mode
    THEN get_next_speaker(load_state(file), next_speaker_override, roles,
                          hierarchical_mode)
    ELSE roles[(state.turn % Len(roles)) + 1].role

\* a turn that drops the error string of the LLM collaborator
spoken_unless_error(local, speaker, response, now) ==
    IF response = "err" THEN local
    ELSE [add_message(local, Message(speaker, response, now))
             EXCEPT !.turn = @ + 1]

\* message = Message(current_role.role, response);
\* state.add_message(message); state.turn += 1
spoken(local, speaker, response, now) ==
    [add_message(local, Message(speaker, response, now))
        EXCEPT !.turn = @ + 1]

\* One turn: the speaker is chosen, generate_response returns response,
\* the message is added to the local state, turn is incremented and the
\* local state is saved.
Turn(response) ==
    /\ pc = "speak"
    /\ \E speaker \in {NextSpeaker} :
         \E said \in {spoken(state, speaker, response, clock)} :
             IF speaker \notin RoleNames(roles)
             THEN \* next(...) raises StopIteration
                  /\ pc' = "raised"
                  /\ UNCHANGED <<state, file, clock, speakers, current_role>>
             ELSE /\ state' = said
                  /\ file' = save_state(said, roles)
                  /\ clock' = clock + 1
                  /\ speakers' = Append(speakers, speaker)
                  /\ current_role' = speaker
                  /\ pc' = "escalation"
    /\ next_speaker_override' =
           IF hierarchical_mode THEN "" ELSE next_speaker_override
    /\ UNCHANGED <<roles, role_hierarchy_map, hierarchical_mode,
                   deadlock_detection_enabled, max_turns, consensus_reached,
                   result, runs, resolved, loaded_turn>>
    /\ UNCHANGED client_vars

\* a turn for which the LLM collaborator replies with a text
Speak == \E response \in Replies(hierarchical_mode) : Turn(response)

\* a turn for which the LLM collaborator returns its error string
GenerationFails == Turn("err")

EscalationFound ==
    /\ hierarchical_mode
    /\ \E loaded \in {load_state(file)} :
         /\ detect_escalation(loaded, current_role, role_hierarchy_map,
                              hierarchical_mode)
         /\ escalates(current_role, role_hierarchy_map, hierarchical_mode)

\* detect_escalation is true: handle_escalation sets the override, loads
\* the state, appends the System notice and saves
HandleEscalation ==
    /\ pc = "escalation"
    /\ EscalationFound
    /\ next_speaker_override' =
           role_hierarchy_map[current_role].superior
    /\ \E escalated \in {add_message(load_state(file),
                                      Message("System", "notice", clock))} :
         file' = save_state(escalated, roles)
    /\ clock' = clock + 1
    /\ pc' = "consensus"
    /\ UNCHANGED <<roles, role_hierarchy_map, hierarchical_mode,
                   deadlock_detection_enabled, max_turns, state,
                   consensus_reached, current_role, result, runs, speakers,
                   resolved, loaded_turn>>
    /\ UNCHANGED client_vars

NoEscalation ==
    /\ pc = "escalation"
    /\ ~EscalationFound
    /\ pc' = "consensus"
    /\ UNCHANGED <<roles, role_hierarchy_map, hierarchical_mode,
                   deadlock_detection_enabled, max_turns, file, state,
                   consensus_reached, next_speaker_override, current_role,
                   result, clock, runs, speakers, resolved, loaded_turn>>
    /\ UNCHANGED client_vars

\* where the loop goes after the verdict: out of the loop on a true
\* verdict, to compress_context every third turn, else to its head
after_consensus(verdict, turn) ==
    IF verdict = "True" THEN "result"
    ELSE IF turn % CompressEvery = 0 THEN "compress"
    ELSE "loop"

\* check_consensus on the loaded state; the verdict is stored in the local
\* state, which is saved; the loop is left on a true verdict
CheckConsensus ==
    /\ pc = "consensus"
    /\ \E loaded \in {load_state(file)} :
         \E verdict \in {check_consensus(loaded, roles)} :
           LET checked == [state EXCEPT !.consensus_reached = verdict]
           IN  /\ consensus_reached' = verdict
               /\ state' = checked
               /\ file' = save_state(checked, roles)
               /\ pc' = after_consensus(verdict, state.turn)
    /\ UNCHANGED <<roles, role_hierarchy_map, hierarchical_mode,
                   deadlock_detection_enabled, max_turns,
                   next_speaker_override, current_role, result, clock, runs,
                   speakers, resolved, loaded_turn>>
    /\ UNCHANGED client_vars

\* compress_context: the loaded state is cut to its last messages and
\* saved, when it holds more than KeepRecent
CompressContext ==
    /\ pc = "compress"
    /\ \E loaded \in {load_state(file)} :
         file' = IF compress_needed(loaded)
                 THEN save_state(compress_context(loaded), roles)
                 ELSE file
    /\ pc' = "loop"
    /\ UNCHANGED <<roles, role_hierarchy_map, hierarchical_mode,
                   deadlock_detection_enabled, max_turns, state,
                   consensus_reached, next_speaker_override, current_role,
                   result, clock, runs, speakers, resolved, loaded_turn>>
    /\ UNCHANGED client_vars

\* the loop is left and the result record is built from the local state
Return ==
    /\ \/ pc = "result"
       \/ pc = "loop" /\ ~LoopCondition
    /\ result' =
           [topic |-> state.topic,
            participants |-> [i \in 1..Len(roles) |-> roles[i].role],
            discussion |-> [i \in 1..Len(state.messages) |->
                               message_to_dict(state.messages[i])],
            turns |-> state.turn,
            consensus_reached |-> consensus_reached,
            deadlock_detected |-> state.deadlock_detected,
            deadlock_resolution_applied |-> state.deadlock_resolution_applied,
            hierarchical_mode |-> hierarchical_mode]
    /\ pc' = "returned"
    /\ UNCHANGED <<roles, role_hierarchy_map, hierarchical_mode,
                   deadlock_detection_enabled, max_turns, file, state,
                   consensus_reached, next_speaker_override, current_role,
                   clock, runs, speakers, resolved, loaded_turn>>
    /\ UNCHANGED client_vars

\* the next step of the program writes the state file
SavePending ==
    \/ /\ NotRunning /\ runs < MaxRuns
       /\ ~load_state_raises(file)
       /\ load_state(file).messages = <<>>
    \/ pc = "loop" /\ LoopCondition /\ DeadlockFound
    \/ pc = "speak"
    \/ pc = "escalation" /\ EscalationFound
    \/ pc = "consensus"
    \/ pc = "compress" /\ compress_needed(load_state(file))

\* The process is interrupted, or the write fails, inside save_state after
\* open(state_file, "w") truncated the file and before json.dump
\* finished: the file is left without a JSON document and the run ends.
SaveInterrupted ==
    /\ SavePending
    /\ file' = CorruptFile
    /\ pc' = "stopped"
    /\ runs' = IF NotRunning THEN runs + 1 ELSE runs
    /\ state' = DiscussionState(Topic)
    /\ consensus_reached' = "False"
    /\ next_speaker_override' = ""
    /\ current_role' = ""
    /\ UNCHANGED <<roles, role_hierarchy_map, hierarchical_mode,
                   deadlock_detection_enabled, max_turns, result, clock,
                   speakers, resolved, loaded_turn>>
    /\ UNCHANGED client_vars

\* The process is interrupted between two steps of the loop: the engine
\* and the local state are lost, the state file stays as it is.
Interrupt ==
    /\ pc \in {"loop", "speak", "escalation", "consensus", "compress"}
    /\ pc' = "stopped"
    /\ state' = DiscussionState(Topic)
    /\ consensus_reached' = "False"
    /\ next_speaker_override' = ""
    /\ current_role' = ""
    /\ UNCHANGED <<roles, role_hierarchy_map, hierarchical_mode,
                   deadlock_detection_enabled, max_turns, file, result, clock,
                   runs, speakers, resolved, loaded_turn>>
    /\ UNCHANGED client_vars

Next ==
    \/ StartRun
    \/ ResolveDeadlock
    \/ NoDeadlock
    \/ Speak
    \/ HandleEscalation
    \/ NoEscalation
    \/ CheckConsensus
    \/ CompressContext
    \/ Return
    \/ SaveInterrupted
    \/ Interrupt

Spec == Init /\ [][Next]_vars

\* ------------------------------------------------------------------------
\* Properties of the engine
\* ------------------------------------------------------------------------
\* the state file holds a record that save_state finished writing
persisted == file.kind = "valid"

\* the positions of the mediator messages in a list of message records
MediatorIndices(messages) ==
    {i \in 1..Len(messages) : messages[i].role = "System (Mediator)"}

\* the number of message records whose speaker is a participant role
ParticipantCount(messages) ==
    Cardinality({i \in 1..Len(messages) :
                    messages[i].role \in RoleNames(roles)})

\* s holds the elements of t it shares with it in the order of t
RECURSIVE IsSubsequence(_, _)
IsSubsequence(s, t) ==
    IF s = <<>> THEN TRUE
    ELSE IF t = <<>> THEN FALSE
    ELSE IF Head(s) = Head(t) THEN IsSubsequence(Tail(s), Tail(t))
    ELSE IsSubsequence(s, Tail(t))

\* s is what is left of t when its first messages are removed
IsSuffix(s, t) ==
    /\ Len(s) <= Len(t)
    /\ s = SubSeq(t, Len(t) - Len(s) + 1, Len(t))

\* C1: in every persisted state, turn equals the number of turns the loop
\* has made, each of which appended one message of a participant role; the
\* welcome, mediator and escalation-notice messages never change it.  While
\* no compression has cut the record, turn is also the number of
\* participant messages the record holds.
TurnCountsParticipantMessages ==
    persisted =>
        /\ file.data.turn = Len(speakers)
        /\ file.data.summary = <<>> =>
               ParticipantCount(file.data.messages) = file.data.turn

\* a persisted state that holds a mediator message next to turns made
TurnCountsParticipantMessagesWitness ==
    /\ persisted
    /\ file.data.turn >= 3
    /\ MediatorIndices(file.data.messages) # {}
    /\ file.data.summary = <<>>

\* C2: once consensus_reached is True in the persisted state, no step of
\* this run or of a later run makes a turn or writes another value of the
\* flag.
ConsensusIsFinal ==
    [][(persisted /\ file.data.consensus_reached = "True")
          => /\ file'.kind = "valid"
             /\ file'.data.consensus_reached = "True"
             /\ speakers' = speakers]_vars

\* a second run on a state with consensus has returned
ConsensusIsFinalWitness ==
    /\ runs = 2
    /\ pc = "returned"
    /\ persisted
    /\ file.data.consensus_reached = "True"
    /\ result.consensus_reached = "True"
    /\ result.turns < max_turns

\* C3: every message of a persisted record is in the next persisted record,
\* in the same relative order; only compress_context removes messages, and
\* what it removes is a prefix.
MessagesArePreserved ==
    [][(persisted /\ file'.kind = "valid")
          => \/ IsSubsequence(file.data.messages, file'.data.messages)
             \/ /\ pc = "compress"
                /\ IsSuffix(file'.data.messages, file.data.messages)]_vars

\* C4: while the flags are set and fewer than 4 messages follow the last
\* mediator message of the persisted state, detect_deadlock is False.
DeadlockSuppressedAfterResolution ==
    (/\ persisted
     /\ file.data.deadlock_detected
     /\ file.data.deadlock_resolution_applied
     /\ MediatorIndices(file.data.messages) # {}
     /\ Len(file.data.messages)
            - Max(MediatorIndices(file.data.messages)) < 4)
        => ~detect_deadlock(load_state(file))

\* C5: once resolve_deadlock ran in a run, both flags are True in every
\* persisted state of the run and in its result record.
DeadlockFlagsStay ==
    resolved =>
        /\ persisted => /\ file.data.deadlock_detected
                        /\ file.data.deadlock_resolution_applied
        /\ pc = "returned" => /\ result.deadlock_detected
                              /\ result.deadlock_resolution_applied

\* C6: in flat mode the speaker of turn t (from 0) is
\* roles[t mod len(roles)], so that over k * len(roles) turns each role
\* speaks k times, with mediator messages in between or not.
FlatRoundRobin ==
    ~hierarchical_mode =>
        /\ \A t \in 1..Len(speakers) :
               speakers[t] = roles[((t - 1) % Len(roles)) + 1].role
        /\ \A k \in 0..Len(speakers) :
               k * Len(roles) <= Len(speakers) =>
                   \A r \in RoleNames(roles) :
                       Cardinality({t \in 1..(k * Len(roles)) :
                                       speakers[t] = r}) = k

\* two rounds were made in flat mode and a mediator message was injected
FlatRoundRobinWitness ==
    /\ ~hierarchical_mode
    /\ resolved
    /\ Len(speakers) = 2 * Len(roles)
    /\ persisted
    /\ MediatorIndices(file.data.messages) # {}

\* the steps run_discussion takes by itself
Step ==
    \/ ResolveDeadlock
    \/ NoDeadlock
    \/ Speak
    \/ HandleEscalation
    \/ NoEscalation
    \/ CheckConsensus
    \/ CompressContext
    \/ Return

\* run_discussion goes on while it is not interrupted: every reply of the
\* LLM collaborator arrives and every statement after it is executed
FairSpec == Spec /\ WF_vars(Step)

\* what holds of the loop: a run that entered it ends, by returning unless
\* the process is interrupted; the loop raises nothing; and when the run
\* returns, consensus_reached is True or turn has reached max_turns
LoopTerminates ==
    /\ [](pc = "returned" =>
              \/ consensus_reached = "True"
              \/ state.turn >= max_turns)
    /\ [](pc = "raised" => load_state_raises(file))
    /\ [](pc \in {"loop", "speak", "escalation", "consensus", "compress",
                  "result"}
              => <>(pc \in {"returned", "stopped"}))

\* C7: a run_discussion call that is not interrupted ends, and it ends in
\* no other way than by returning with consensus_reached True or with
\* turn >= max_turns.
RunTerminates ==
    /\ [](pc \in {"returned", "raised"} =>
              /\ pc = "returned"
              /\ \/ consensus_reached = "True"
                 \/ state.turn >= max_turns)
    /\ [](pc \in {"loop", "speak", "escalation", "consensus", "compress",
                  "result"}
              => <>(pc \in {"returned", "stopped"}))

\* C8: no turn is made once turn >= max_turns; a run started on a state
\* with turn <= max_turns returns turns <= max_turns, and turns = max_turns
\* when it returns without consensus.
TurnsBoundedByMaxTurns ==
    /\ pc = "speak" => state.turn < max_turns
    /\ (pc = "returned" /\ loaded_turn <= max_turns) =>
           /\ result.turns <= max_turns
           /\ result.consensus_reached # "True" =>
                  result.turns = max_turns

\* a resumed run has returned at max_turns without consensus
TurnsBoundedByMaxTurnsWitness ==
    /\ pc = "returned"
    /\ loaded_turn > 0
    /\ loaded_turn < max_turns
    /\ result.consensus_reached # "True"
    /\ result.turns = max_turns

\* C9: a save that is interrupted leaves the record of the last finished
\* save in the state file, and load_state returns it.
InterruptedSaveKeepsRecord ==
    [][pc' = "stopped" => /\ file' = file
                          /\ ~load_state_raises(file')]_vars

\* C10: on a record that is no JSON document load_state raises nothing
\* and returns the fresh state of the topic.
CorruptRecordLoadsFresh ==
    file.kind = "corrupt" =>
        /\ ~load_state_raises(file)
        /\ load_state(file) = DiscussionState(Topic)

\* ------------------------------------------------------------------------
\* A client of DiskBasedDiscussionManager
\* ------------------------------------------------------------------------
\* the most calls a client makes
MaxCalls == 3

\* the most messages of a state a client saves
MaxStored == 2

\* the variables of run_discussion, which a client leaves alone
run_vars ==
    <<deadlock_detection_enabled, max_turns, consensus_reached, current_role,
      pc, result, clock, runs, speakers, resolved, loaded_turn>>

\* the messages and states a client builds and saves
StoredMessages ==
    [role : {"dev", "System"}, content : {"perf"},
     metadata : {{}, {<<"source", "test">>}}, timestamp : {0}]

StoredHistories == UNION {[1..n -> StoredMessages] : n \in 0..MaxStored}

StatesToSave ==
    [topic : {Topic}, messages : StoredHistories, summary : {<<>>, <<1>>},
     turn : 0..1, consensus_reached : {"True", "False", "None"},
     deadlock_detected : BOOLEAN, deadlock_resolution_applied : BOOLEAN]

\* a manager for the topic, no state file yet, and a state the client built
StoreInit ==
    /\ roles \in RoleLists
    /\ hierarchical_mode = FALSE
    /\ deadlock_detection_enabled = FALSE
    /\ role_hierarchy_map = initial_hierarchy_map(roles, hierarchical_mode)
    /\ max_turns = MaxTurns
    /\ file = NoFile
    /\ state \in StatesToSave
    /\ consensus_reached = "False"
    /\ next_speaker_override = ""
    /\ current_role = ""
    /\ pc = "client"
    /\ result = NoResult
    /\ clock = 0
    /\ runs = 0
    /\ speakers = <<>>
    /\ resolved = FALSE
    /\ loaded_turn = 0
    /\ detector = ConsensusDetector("None")
    /\ ollama = EnhancedOllamaClient(DefaultMaxRetries)
    /\ calls = <<>>

\* the client calls save_state(state)
SaveState ==
    /\ pc = "client"
    /\ Len(calls) < MaxCalls
    /\ file' = save_state(state, roles)
    /\ calls' = Append(calls, [op |-> "save_state", state |-> state,
                               raised |-> FALSE])
    /\ UNCHANGED <<roles, role_hierarchy_map, hierarchical_mode, state,
                   next_speaker_override, detector, ollama>>
    /\ UNCHANGED run_vars

\* the client calls load_state(), which returns a state or raises
LoadState ==
    /\ pc = "client"
    /\ Len(calls) < MaxCalls
    /\ calls' = Append(calls,
                       IF load_state_raises(file)
                       THEN [op |-> "load_state", state |-> state,
                             raised |-> TRUE]
                       ELSE [op |-> "load_state", state |-> load_state(file),
                             raised |-> FALSE])
    /\ UNCHANGED <<roles, role_hierarchy_map, hierarchical_mode, file, state,
                   next_speaker_override, detector, ollama>>
    /\ UNCHANGED run_vars

StoreNext ==
    \/ SaveState
    \/ LoadState

StoreSpec == StoreInit /\ [][StoreNext]_vars

LoadWithoutRecordIsFresh ==
    \A j \in 1..Len(calls) :
        (\A i \in 1..j : calls[i].op # "save_state") =>
            /\ ~calls[j].raised
            /\ calls[j].state.topic = Topic
            /\ calls[j].state.messages = <<>>
            /\ calls[j].state.summary = <<>>
            /\ calls[j].state.turn = 0
            /\ calls[j].state.consensus_reached = "False"
            /\ ~calls[j].state.deadlock_detected
            /\ ~calls[j].state.deadlock_resolution_applied
            /\ (j = Len(calls) => file.kind = "absent")

\* load_state was called twice and there is still no state file
LoadWithoutRecordIsFreshWitness ==
    /\ Len(calls) = 2
    /\ calls[1].op = "load_state"
    /\ calls[2].op = "load_state"
    /\ file.kind = "absent"
    /\ state.messages # <<>>

\* ------------------------------------------------------------------------
\* A client of DiscussionEngine.handle_escalation and get_next_speaker
\* ------------------------------------------------------------------------
\* three roles in a chain of superiors, with every assignment of levels;
\* level 0 stands for a role without a level
SchedulerRoleLists ==
    {<< [role |-> "dev", hierarchy_level |-> level[1], superior |-> "lead",
         subordinates |-> <<"qa">>],
        [role |-> "lead", hierarchy_level |-> level[2], superior |-> "",
         subordinates |-> <<"dev">>],
        [role |-> "qa", hierarchy_level |-> level[3], superior |-> "dev",
         subordinates |-> <<>>] >> :
     level \in [1..3 -> {0, 1, 2}]}

\* the states the client saves: no message, one message, or as many
\* messages as there are roles, by roles or by "System"; a turn of the
\* first round or of the round after it
ScheduledStates ==
    LET ScheduledSpeakers == {"dev", "lead", "qa", "System"}
        ScheduledHistories ==
            {<<>>} \cup [1..1 -> ScheduledSpeakers]
                   \cup [1..3 -> ScheduledSpeakers]
        ScheduledTurns == {1, 3, 4, 5}
    IN  {[DiscussionState(Topic) EXCEPT
             !.messages = [i \in DOMAIN history |->
                              Message(history[i], "perf", i - 1)],
             !.turn = turn] :
         history \in ScheduledHistories, turn \in ScheduledTurns}

\* the text of the notice handle_escalation posts; "notice" is the text
\* for dev and lead
escalation_notice(role_name, superior) ==
    IF role_name = "dev" /\ superior = "lead" THEN "notice"
    ELSE "notice:" \o role_name \o ":" \o superior

\* an engine in hierarchical mode and a state the client saved
SchedulerInit ==
    /\ roles \in SchedulerRoleLists
    /\ hierarchical_mode = TRUE
    /\ deadlock_detection_enabled = FALSE
    /\ role_hierarchy_map = initial_hierarchy_map(roles, hierarchical_mode)
    /\ max_turns = MaxTurns
    /\ state \in ScheduledStates
    /\ file = save_state(state, roles)
    /\ consensus_reached = "False"
    /\ next_speaker_override = ""
    /\ current_role = ""
    /\ pc = "client"
    /\ result = NoResult
    /\ clock = Len(state.messages)
    /\ runs = 0
    /\ speakers = <<>>
    /\ resolved = FALSE
    /\ loaded_turn = 0
    /\ detector = ConsensusDetector("None")
    /\ ollama = EnhancedOllamaClient(DefaultMaxRetries)
    /\ calls = <<>>

\* what the two calls leave alone
scheduler_unchanged ==
    <<roles, role_hierarchy_map, hierarchical_mode,
      deadlock_detection_enabled, max_turns, state, consensus_reached,
      current_role, pc, result, runs, speakers, resolved, loaded_turn,
      detector, ollama>>

\* handle_escalation(role_name) called by the client; returned is the
\* escalated_to of the result, "" when escalated is False
HandleEscalationCall(role_name) ==
    /\ pc = "client"
    /\ IF escalates(role_name, role_hierarchy_map, hierarchical_mode)
       THEN \E superior \in {role_hierarchy_map[role_name].superior} :
              /\ next_speaker_override' = superior
              /\ file' = save_state(
                             add_message(load_state(file),
                                         Message("System",
                                                 escalation_notice(
                                                     role_name, superior),
                                                 clock)),
                             roles)
              /\ clock' = clock + 1
              /\ calls' = Append(calls, [op |-> "handle_escalation",
                                         role_name |-> role_name,
                                         returned |-> superior])
       ELSE /\ calls' = Append(calls, [op |-> "handle_escalation",
                                       role_name |-> role_name,
                                       returned |-> ""])
            /\ UNCHANGED <<next_speaker_override, file, clock>>
    /\ UNCHANGED scheduler_unchanged

\* the client calls handle_escalation for a role of the engine
CallHandleEscalation ==
    /\ Len(calls) < MaxCalls
    /\ \E role_name \in RoleNames(roles) : HandleEscalationCall(role_name)

\* a get_next_speaker call that leaves the override in place
CallGetNextSpeakerKeepingOverride ==
    /\ pc = "client"
    /\ Len(calls) < MaxCalls
    /\ calls' = Append(calls,
                       [op |-> "get_next_speaker", role_name |-> "",
                        returned |->
                            get_next_speaker(load_state(file),
                                             next_speaker_override, roles,
                                             hierarchical_mode)])
    /\ UNCHANGED <<next_speaker_override, file, clock>>
    /\ UNCHANGED scheduler_unchanged

\* the client calls get_next_speaker(): the override, if any, is returned
\* and cleared
CallGetNextSpeaker ==
    /\ pc = "client"
    /\ Len(calls) < MaxCalls
    /\ calls' = Append(calls,
                       [op |-> "get_next_speaker", role_name |-> "",
                        returned |->
                            get_next_speaker(load_state(file),
                                             next_speaker_override, roles,
                                             hierarchical_mode)])
    /\ next_speaker_override' = ""
    /\ UNCHANGED <<file, clock>>
    /\ UNCHANGED scheduler_unchanged

SchedulerNext ==
    \/ CallHandleEscalation
    \/ CallGetNextSpeaker

SchedulerSpec == SchedulerInit /\ [][SchedulerNext]_vars

\* C13: in hierarchical mode, the get_next_speaker call that follows a
\* successful handle_escalation(r) returns the superior recorded for r,
\* whatever the turn, the levels and the speakers of the last messages are.
EscalationSchedulesSuperior ==
    \A i \in 1..(Len(calls) - 1) :
        (/\ calls[i].op = "handle_escalation"
         /\ calls[i].returned # ""
         /\ calls[i + 1].op = "get_next_speaker")
        => /\ role_hierarchy_map[calls[i].role_name].superior # ""
           /\ calls[i + 1].returned =
                  role_hierarchy_map[calls[i].role_name].superior

\* an escalation in the first round, to a role the schedule would not
\* have picked
EscalationSchedulesSuperiorWitness ==
    /\ Len(calls) = 2
    /\ calls[1].op = "handle_escalation"
    /\ calls[1].returned # ""
    /\ calls[2].op = "get_next_speaker"
    /\ calls[2].returned = calls[1].returned
    /\ state.turn < Len(roles)
    /\ scheduled_speaker(load_state(file), roles, hierarchical_mode)
           # calls[2].returned

\* C14: the override is one-shot: the get_next_speaker call that returns
\* it clears it, and the call after that returns the scheduled speaker.
OverrideIsOneShot ==
    \A n \in {Len(calls)} :
        (n >= 1 /\ calls[n].op = "get_next_speaker")
        => /\ next_speaker_override = ""
           /\ (n >= 2 /\ calls[n - 1].op = "get_next_speaker")
              => calls[n].returned =
                     scheduled_speaker(load_state(file), roles,
                                       hierarchical_mode)

\* two get_next_speaker calls after an escalation: the first returns the
\* superior, the second another role
OverrideIsOneShotWitness ==
    /\ Len(calls) = 3
    /\ calls[1].op = "handle_escalation"
    /\ calls[1].returned # ""
    /\ calls[2].op = "get_next_speaker"
    /\ calls[2].returned = calls[1].returned
    /\ calls[3].op = "get_next_speaker"
    /\ calls[3].returned # calls[2].returned
    /\ next_speaker_override = ""

\* C16: after the first round and with no override pending,
\* get_next_speaker returns the highest-ranking role that is not among the
\* speakers of the last len(roles) persisted messages, and roles[turn mod
\* len(roles)] when every role is among them.
NextSpeakerSkipsRecentSpeakers ==
    \A n \in {Len(calls)} :
        LET PendingOverride ==
                \E i \in 1..(n - 1) :
                    /\ calls[i].op = "handle_escalation"
                    /\ calls[i].returned # ""
                    /\ \A j \in (i + 1)..(n - 1) :
                           calls[j].op # "get_next_speaker"
            loaded == load_state(file)
            messages == loaded.messages
            last_messages == {i \in DOMAIN messages :
                              i > Len(messages) - Len(roles)}
            recent == {messages[i].role : i \in last_messages}
            candidates == {i \in DOMAIN roles : roles[i].role \notin recent}
            Outranks(a, b) ==
                /\ roles[a].hierarchy_level # 0
                /\ \/ roles[b].hierarchy_level = 0
                   \/ roles[a].hierarchy_level < roles[b].hierarchy_level
        IN  (/\ n >= 1
             /\ calls[n].op = "get_next_speaker"
             /\ ~PendingOverride
             /\ loaded.turn >= Len(roles))
            => IF candidates = {}
               THEN calls[n].returned =
                        roles[(loaded.turn % Len(roles)) + 1].role
               ELSE \E c \in candidates :
                        /\ calls[n].returned = roles[c].role
                        /\ \A d \in candidates : ~Outranks(d, c)

\* ------------------------------------------------------------------------
\* Construction of a hierarchical engine from arbitrary role lists
\* ------------------------------------------------------------------------
\* three roles, each with any superior and at most one subordinate, among
\* them names that are no role
HierarchyRoleLists ==
    LET names == {"dev", "lead", "qa", "ghost"}
        links == [superior : names \cup {""},
                  subordinates : {<<>>} \cup [1..1 -> names]]
    IN  {<< [role |-> "dev", hierarchy_level |-> 2,
             superior |-> link[1].superior,
             subordinates |-> link[1].subordinates],
            [role |-> "lead", hierarchy_level |-> 1,
             superior |-> link[2].superior,
             subordinates |-> link[2].subordinates],
            [role |-> "qa", hierarchy_level |-> 0,
             superior |-> link[3].superior,
             subordinates |-> link[3].subordinates] >> :
         link \in [1..3 -> links]}

\* the arguments of DiscussionEngine(...), before __init__ ran
HierarchyInit ==
    /\ roles \in HierarchyRoleLists
    /\ hierarchical_mode = TRUE
    /\ deadlock_detection_enabled = FALSE
    /\ role_hierarchy_map = <<>>
    /\ max_turns = MaxTurns
    /\ state = DiscussionState(Topic)
    /\ file = NoFile
    /\ consensus_reached = "False"
    /\ next_speaker_override = ""
    /\ current_role = ""
    /\ pc = "new"
    /\ result = NoResult
    /\ clock = 0
    /\ runs = 0
    /\ speakers = <<>>
    /\ resolved = FALSE
    /\ loaded_turn = 0
    /\ detector = ConsensusDetector("None")
    /\ ollama = EnhancedOllamaClient(DefaultMaxRetries)
    /\ calls = <<>>

\* __init__ builds role_hierarchy_map
Construct ==
    /\ pc = "new"
    /\ role_hierarchy_map' = initial_hierarchy_map(roles, hierarchical_mode)
    /\ pc' = "constructed"
    /\ UNCHANGED <<roles, hierarchical_mode, deadlock_detection_enabled,
                   max_turns, state, file, consensus_reached,
                   next_speaker_override, current_role, result, clock, runs,
                   speakers, resolved, loaded_turn, detector, calls,
                   ollama>>

HierarchySpec == HierarchyInit /\ [][Construct]_vars

\* C17: the map _build_hierarchy_map returns is closed (every superior and
\* subordinate it names is a role of the map) and bidirectionally
\* consistent (B is among the subordinates of A exactly when the superior
\* of B is A), for every list of roles.
HierarchyMapIsConsistent ==
    pc = "constructed"
    => \A a \in DOMAIN role_hierarchy_map :
           /\ role_hierarchy_map[a].superior \in
                  DOMAIN role_hierarchy_map \cup {""}
           /\ Range(role_hierarchy_map[a].subordinates)
                  \subseteq DOMAIN role_hierarchy_map
           /\ \A b \in DOMAIN role_hierarchy_map :
                  b \in Range(role_hierarchy_map[a].subordinates)
                      <=> role_hierarchy_map[b].superior = a

\* ------------------------------------------------------------------------
\* The first round of run_discussion
\* ------------------------------------------------------------------------
\* a new hierarchical engine, for a role list in either order of rank
RoundInit ==
    /\ roles \in {RoleList, RoleListNoLevel}
    /\ hierarchical_mode = TRUE
    /\ deadlock_detection_enabled \in BOOLEAN
    /\ role_hierarchy_map = initial_hierarchy_map(roles, hierarchical_mode)
    /\ max_turns = MaxTurns
    /\ file = NoFile
    /\ state = DiscussionState(Topic)
    /\ consensus_reached = "False"
    /\ next_speaker_override = ""
    /\ current_role = ""
    /\ pc = "idle"
    /\ result = NoResult
    /\ clock = 0
    /\ runs = 0
    /\ speakers = <<>>
    /\ resolved = FALSE
    /\ loaded_turn = 0
    /\ detector = ConsensusDetector("None")
    /\ ollama = EnhancedOllamaClient(DefaultMaxRetries)
    /\ calls = <<>>

RoundSpec == RoundInit /\ [][Next]_vars

\* C15: in hierarchical mode the first len(roles) turns are spoken by
\* different roles in ascending order of level, whatever the order of the
\* role list is, and a role without a level speaks after the roles that
\* have one. (With the role lists of the model an escalation of the first
\* round names the role this order gives anyway.)
FirstRoundByLevel ==
    hierarchical_mode
    => \A i, j \in 1..Len(speakers) :
           LET level(name) ==
                   roles[CHOOSE k \in 1..Len(roles) :
                             roles[k].role = name].hierarchy_level
           IN  (i < j /\ j <= Len(roles))
               => /\ speakers[i] # speakers[j]
                  /\ level(speakers[j]) # 0 => level(speakers[i]) # 0
                  /\ level(speakers[j]) # 0
                     => level(speakers[i]) <= level(speakers[j])

\* a first round spoken in the order of rank, opposite to the list order
FirstRoundByLevelWitness ==
    /\ hierarchical_mode
    /\ roles[1].role = "dev"
    /\ roles[1].hierarchy_level > roles[2].hierarchy_level
    /\ roles[2].hierarchy_level # 0
    /\ Len(speakers) >= Len(roles)
    /\ speakers[1] = "lead"
    /\ speakers[2] = "dev"

\* C18: run_discussion never sets consensus_reached to True while turn is
\* below len(roles): neither its local flag, nor the state it holds, nor
\* the persisted record, nor the result it returns.
NoConsensusBeforeFullRound ==
    /\ consensus_reached = "True" => state.turn >= Len(roles)
    /\ state.consensus_reached = "True" => state.turn >= Len(roles)
    /\ ~load_state_raises(file)
       => \A loaded \in {load_state(file)} :
              loaded.consensus_reached = "True"
                  => loaded.turn >= Len(roles)
    /\ (pc = "returned" /\ result.consensus_reached = "True")
       => result.turns >= Len(roles)

\* the heuristics find consensus in the messages of the first turn, and
\* the check of that turn has left the flag False
NoConsensusBeforeFullRoundWitness ==
    /\ pc \in {"loop", "compress"}
    /\ state.turn >= 1
    /\ state.turn < Len(roles)
    /\ ~load_state_raises(file)
    /\ check_consensus_rule_based(load_state(file).messages, TopicWords,
                                  DefaultThreshold) = "True"
    /\ consensus_reached = "False"
    /\ load_state(file).consensus_reached = "False"

\* ------------------------------------------------------------------------
\* consensus_detector.py: the further layers and ConsensusDetector
\* ------------------------------------------------------------------------
\* The layers are applied to the texts "perf", "sec", "react" (I strongly
\* support React.), "doubt" (I strongly doubt React performance.), "both"
\* (Security and performance both matter.) and "dis" (I disagree,
\* performance is important.), each of one sentence,
\* so that a text and its key point have the same words.  A message is a
\* record of role, content and timestamp, the timestamp -1 standing for a
\* dict without the key.  Scores are in thousandths rounded down.

\* re.findall(r'\b\w+\b', topic.lower()) of the topics
topic_words(topic) ==
    CASE topic = "" -> {}
      [] topic = "performance" -> {"performance"}
      [] topic = "Frontend framework" -> {"frontend", "framework"}
      [] topic = "Security vs Performance" ->
           {"security", "vs", "performance"}
      [] topic = "React performance" -> {"react", "performance"}

\* the verdict of a bool
Verdict(b) == IF b THEN "True" ELSE "False"

RECURSIVE Sum(_)
Sum(s) == IF s = <<>> THEN 0 ELSE Head(s) + Sum(Tail(s))

\* analyze_sentiment of the texts: 2/3 for "react", 0 for the others
analyze_sentiment(content) == IF content = "react" THEN 666 ELSE 0

\* threshold 0.5
check_consensus_with_sentiment(messages) ==
    IF Len(messages) < 2 THEN "False"
    ELSE LET sentiments ==
                 [m \in 1..Len(messages) |->
                     analyze_sentiment(messages[m].content)]
         IN  Verdict(Sum(sentiments) >= 500 * Len(messages))

\* the average Jaccard similarity of the expanded terms of the topic and
\* of each message; no topic drawn contains "authentication"
calculate_topic_relevance(messages, topic) ==
    IF messages = <<>> \/ topic = "" THEN 0
    ELSE
      LET words == topic_words(topic)
          topic_terms ==
              words \cup UNION {expanded_synonyms(w) : w \in words}
          relevance(m) ==
              LET content_terms == get_expanded_terms(messages[m].content)
                  intersection == Cardinality(topic_terms \cap content_terms)
                  union == Cardinality(topic_terms \cup content_terms)
              IN  IF topic_terms = {} \/ content_terms = {} \/ union = 0
                  THEN 0 ELSE (intersection * 1000) \div union
      IN  Sum([m \in 1..Len(messages) |-> relevance(m)]) \div Len(messages)

\* the messages with a key point of similarity above 0.7 to a point of
\* the group
messages_with_point(group, messages) ==
    {m \in 1..Len(messages) :
        \E k \in 1..Len(extract_key_points(messages[m].content)) :
            \E g \in 1..Len(group) :
                calculate_similarity(
                    group[g],
                    extract_key_points(messages[m].content)[k]) > 700}

\* sorted(messages, key=lambda msg: msg.get("timestamp", 0)), stable
RECURSIVE sorted_by_timestamp(_)
sorted_by_timestamp(messages) ==
    IF messages = <<>> THEN <<>>
    ELSE LET first == CHOOSE i \in 1..Len(messages) :
                          /\ \A j \in 1..Len(messages) :
                                 messages[i].timestamp
                                     <= messages[j].timestamp
                          /\ \A j \in 1..(i - 1) :
                                 messages[j].timestamp
                                     > messages[i].timestamp
         IN  <<messages[first]>>
                 \o sorted_by_timestamp(
                        SelectAt(messages,
                                 (1..Len(messages)) \ {first}, 1))

\* threshold 0.6 on the weight of the messages with a point of a group,
\* the weight of the message of index i of N being
\* e^(i/N) / (e^(0/N) + ... + e^((N-1)/N)); the text of lines 584-594
\* occurs in no text drawn
check_consensus_with_temporal_analysis(messages, topic) ==
    IF Len(messages) < 2 THEN "False"
    ELSE
      LET sorted_messages == sorted_by_timestamp(messages)
          all_points ==
              Flatten([m \in 1..Len(sorted_messages) |->
                          extract_key_points(sorted_messages[m].content)])
          point_groups == group_similar_points(all_points)
          normalized_weights ==
              CASE Len(sorted_messages) = 2 -> <<377, 622>>
                [] Len(sorted_messages) = 3 -> <<230, 321, 448>>
          weighted_agreement(group) ==
              Sum(SelectAt(normalized_weights,
                           messages_with_point(group, sorted_messages), 1))
      IN  Verdict(\E g \in 1..Len(point_groups) :
                      weighted_agreement(point_groups[g]) > 600)

\* (consensus_detected, confidence); of the fixtures of lines 808-826 the
\* texts drawn meet the first only: "react" and one of "definitely",
\* "absolutely", "strongly", "clearly" in every message
check_consensus_with_confidence(messages, topic) ==
    IF Len(messages) < 2 THEN [consensus |-> "False", confidence |-> 1000]
    ELSE
      LET all_points ==
              Flatten([m \in 1..Len(messages) |->
                          extract_key_points(messages[m].content)])
          point_groups == group_similar_points(all_points)
          total_roles ==
              Cardinality({messages[m].role : m \in 1..Len(messages)})
          agreement_ratio(group) ==
              (Cardinality({messages[m].role :
                               m \in messages_with_point(group, messages)})
                   * 1000) \div total_roles
          max_agreement ==
              Max({0} \cup {agreement_ratio(point_groups[g]) :
                               g \in 1..Len(point_groups)})
          consensus_detected == max_agreement > 700
          sentiments ==
              [m \in 1..Len(messages) |->
                  analyze_sentiment(messages[m].content)]
          avg_sentiment_magnitude ==
              Sum([m \in 1..Len(messages) |->
                      IF sentiments[m] < 0 THEN 0 - sentiments[m]
                      ELSE sentiments[m]]) \div Len(messages)
          negative ==
              (Cardinality({m \in 1..Len(messages) : sentiments[m] < 0})
                   * 1000) \div Len(messages)
          topic_relevance == calculate_topic_relevance(messages, topic)
          confidence ==
              IF consensus_detected
              THEN (5 * max_agreement + 2 * avg_sentiment_magnitude
                        + 2 * topic_relevance + (1000 - negative)) \div 10
              ELSE (5 * (1000 - max_agreement) + 2 * avg_sentiment_magnitude
                        + 2 * topic_relevance + negative) \div 10
      IN  IF \A m \in 1..Len(messages) :
                 messages[m].content \in {"react", "doubt"}
          THEN [consensus |-> "True", confidence |-> 900]
          ELSE [consensus |-> Verdict(consensus_detected),
                confidence |-> Min2(1000, Max({0, confidence}))]

\* "CONSENSUS: YES" in response.upper(), for a client that replies with a
\* text that holds it ("yes") or does not ("no")
check_consensus_with_llm(messages, topic, llm_client) ==
    Verdict(llm_client = "yes")

\* ConsensusDetector.check_consensus.  The fixtures of lines 852-903 need
\* four or eight messages or a topic that is not drawn; the two of lines
\* 905-921 are: every message supports React and the topic holds
\* "frontend"; every message holds "security" and "performance", the topic
\* holds "security vs performance" and an LLM client is configured.
ConsensusDetector_check_consensus(self, messages, topic) ==
    LET contents == {messages[m].content : m \in 1..Len(messages)}
        topic_relevance == calculate_topic_relevance(messages, topic)
        rule_based_result ==
            check_consensus_rule_based(messages, topic_words(topic),
                                       DefaultThreshold)
        sentiment_result == check_consensus_with_sentiment(messages)
        has_timestamps ==
            \A m \in 1..Len(messages) : messages[m].timestamp # -1
        temporal_result ==
            IF has_timestamps
            THEN check_consensus_with_temporal_analysis(messages, topic)
            ELSE "None"
        \* role_expertise_cache is empty
        expertise_result == "None"
        confidence == check_consensus_with_confidence(messages, topic)
        results ==
            SelectSeq(<<rule_based_result, sentiment_result, temporal_result,
                        expertise_result, confidence.consensus>>,
                      LAMBDA r : r # "None")
        consensus_votes ==
            Cardinality({k \in 1..Len(results) : results[k] = "True"})
        no_consensus_votes == Len(results) - consensus_votes
    IN  IF contents \subseteq {"react"} /\ topic = "Frontend framework"
        THEN "True"
        ELSE IF /\ contents \subseteq {"both"}
                /\ topic = "Security vs Performance"
                /\ self.llm_client # "None"
        THEN "True"
        ELSE IF topic_relevance < 300 THEN "False"
        ELSE IF rule_based_result # "None" THEN rule_based_result
        ELSE IF confidence.confidence > 800 THEN confidence.consensus
        ELSE IF results = <<>>
        THEN (IF self.llm_client # "None"
              THEN check_consensus_with_llm(messages, topic, self.llm_client)
              ELSE "False")
        ELSE Verdict(consensus_votes > no_consensus_votes)

\* ------------------------------------------------------------------------
\* A client of ConsensusDetector and check_consensus_rule_based
\* ------------------------------------------------------------------------
\* the histories the client holds: up to three messages with the texts of
\* the layers, by different roles or with one role twice, all without a
\* timestamp or all with one, in the order of the list or against it; and
\* four messages by role1 to role4, without timestamps, that state a
\* position or disagree with one
DetectorHistories ==
    LET texts == {"perf", "sec", "react", "doubt", "both"}
        role_lists == {<<>>, <<"dev">>, <<"dev", "lead">>,
                     <<"dev", "lead", "qa">>, <<"dev", "lead", "dev">>}
        stamps(n) == {[i \in 1..n |-> -1], [i \in 1..n |-> i - 1],
                      [i \in 1..n |-> n - i]}
        numbered == <<"role1", "role2", "role3", "role4">>
    IN  UNION {{[i \in 1..Len(s) |->
                    [role |-> s[i], content |-> content[i],
                     timestamp |-> timestamp[i]]] :
                content \in [1..Len(s) -> texts],
                timestamp \in stamps(Len(s))} :
               s \in role_lists}
        \cup {[i \in 1..4 |->
                  [role |-> numbered[i], content |-> content[i],
                   timestamp |-> -1]] :
              content \in [1..4 -> {"perf", "sec", "dis"}]}

\* a detector without an LLM client or with one that replies with or
\* without "CONSENSUS: YES", and the history and topic the client passes
\* to it
DetectorInit ==
    /\ roles = RoleList
    /\ hierarchical_mode = FALSE
    /\ deadlock_detection_enabled = FALSE
    /\ role_hierarchy_map = <<>>
    /\ max_turns = MaxTurns
    /\ \E topic \in {"", "performance", "Frontend framework",
                      "Security vs Performance", "React performance"},
          history \in DetectorHistories :
           state = [DiscussionState(topic) EXCEPT !.messages = history]
    /\ file = NoFile
    /\ consensus_reached = "False"
    /\ next_speaker_override = ""
    /\ current_role = ""
    /\ pc = "client"
    /\ result = NoResult
    /\ clock = 0
    /\ runs = 0
    /\ speakers = <<>>
    /\ resolved = FALSE
    /\ loaded_turn = 0
    /\ \E llm_client \in {"None", "yes", "no"} :
           detector = ConsensusDetector(llm_client)
    /\ ollama = EnhancedOllamaClient(DefaultMaxRetries)
    /\ calls = <<>>

\* the number of calls the client of the detector makes
MaxChecks == 2

\* the client calls detector.check_consensus(messages, topic)
CallCheckConsensus ==
    /\ pc = "client"
    /\ Len(calls) < MaxChecks
    /\ calls' = Append(calls,
                       [op |-> "check_consensus",
                        threshold |-> DefaultThreshold,
                        returned |->
                            ConsensusDetector_check_consensus(
                                detector, state.messages, state.topic)])
    /\ UNCHANGED <<roles, role_hierarchy_map, hierarchical_mode, file, state,
                   next_speaker_override, detector, ollama>>
    /\ UNCHANGED run_vars

\* the client calls check_consensus_rule_based(messages, topic) with the
\* default threshold, or with the threshold 0.9
CallCheckConsensusRuleBased ==
    /\ pc = "client"
    /\ Len(calls) < MaxChecks
    /\ \E threshold \in {DefaultThreshold, 90} :
           calls' = Append(calls,
                           [op |-> "check_consensus_rule_based",
                            threshold |-> threshold,
                            returned |->
                                check_consensus_rule_based(
                                    state.messages, topic_words(state.topic),
                                    threshold)])
    /\ UNCHANGED <<roles, role_hierarchy_map, hierarchical_mode, file, state,
                   next_speaker_override, detector, ollama>>
    /\ UNCHANGED run_vars

DetectorNext ==
    \/ CallCheckConsensus
    \/ CallCheckConsensusRuleBased

DetectorSpec == DetectorInit /\ [][DetectorNext]_vars

\* C19: on a history of fewer than three messages, the empty one included,
\* check_consensus_rule_based and ConsensusDetector.check_consensus return
\* False, whatever the texts, the topic and the LLM client are.
FewMessagesNoConsensus ==
    Len(state.messages) < 3
    => \A i \in 1..Len(calls) : calls[i].returned = "False"

\* C20: when the layers after the rule-based one are consulted, the
\* decision of ConsensusDetector.check_consensus is the simple majority of
\* their definite verdicts, a tie giving False.
DecisionIsMajorityVote ==
    \A i \in 1..Len(calls) :
        LET messages == state.messages
            topic == state.topic
            verdicts ==
                SelectSeq(
                    <<check_consensus_with_sentiment(messages),
                      IF \A m \in 1..Len(messages) :
                             messages[m].timestamp # -1
                      THEN check_consensus_with_temporal_analysis(messages,
                                                                  topic)
                      ELSE "None",
                      check_consensus_with_confidence(messages,
                                                      topic).consensus>>,
                    LAMBDA verdict : verdict # "None")
            for == Cardinality({k \in 1..Len(verdicts) :
                                   verdicts[k] = "True"})
            consulted ==
                /\ Len(messages) >= 3
                /\ calculate_topic_relevance(messages, topic) >= 300
                /\ check_consensus_rule_based(messages, topic_words(topic),
                                              DefaultThreshold) = "None"
        IN  (calls[i].op = "check_consensus" /\ consulted)
            => calls[i].returned = Verdict(for > Len(verdicts) - for)

\* C21: when check_consensus_rule_based returns None on the history and an
\* LLM client is configured, ConsensusDetector.check_consensus returns the
\* verdict of the LLM, True exactly if its reply holds "CONSENSUS: YES";
\* without an LLM client, when no layer gives a verdict, it returns False.
LlmDecidesWhenRuleBasedUncertain ==
    \A i \in 1..Len(calls) :
        LET messages == state.messages
            topic == state.topic
            uncertain ==
                check_consensus_rule_based(messages, topic_words(topic),
                                           DefaultThreshold) = "None"
            undecided ==
                /\ uncertain
                /\ check_consensus_with_sentiment(messages) = "None"
                /\ check_consensus_with_confidence(messages,
                                                   topic).consensus = "None"
        IN  calls[i].op = "check_consensus"
            => /\ (uncertain /\ detector.llm_client # "None")
                   => calls[i].returned =
                          check_consensus_with_llm(messages, topic,
                                                   detector.llm_client)
               /\ (undecided /\ detector.llm_client = "None")
                   => calls[i].returned = "False"

\* C22: on a history of at least three messages check_consensus_rule_based
\* returns True when the share of the speaking roles that cover the top
\* group of points reaches the threshold and the topic gate passes, False
\* when the share is below one half, and None when it is at least one half
\* and below the threshold.
RuleBasedVerdictByRatio ==
    \A i \in 1..Len(calls) :
        LET messages == state.messages
            topic_terms == topic_words(state.topic)
            threshold == calls[i].threshold
            point_groups ==
                group_similar_points(
                    Flatten([m \in 1..Len(messages) |->
                                extract_key_points(messages[m].content)]))
            total_roles ==
                Cardinality({messages[m].role : m \in 1..Len(messages)})
            covering(g) ==
                Cardinality(roles_with_point(point_groups[g], messages))
            top_count ==
                Max({covering(g) : g \in 1..Len(point_groups)})
            top_group ==
                point_groups[
                    Max({0 - g : g \in {h \in 1..Len(point_groups) :
                                           covering(h) = top_count}}) * (0 - 1)]
            reached == top_count * 100 >= threshold * total_roles
            below_half == 2 * top_count < total_roles
        IN  (/\ calls[i].op = "check_consensus_rule_based"
             /\ Len(messages) >= 3
             /\ point_groups # <<>>)
            => /\ (reached /\ is_topic_relevant(topic_terms, top_group))
                   => calls[i].returned = "True"
               /\ below_half => calls[i].returned = "False"
               /\ (~reached /\ ~below_half)
                   => calls[i].returned = "None"

\* C23: when the share of the roles that cover the top group reaches the
\* threshold, check_consensus_rule_based returns False for a topic that
\* shares no word with any point of that group, and True for a topic that
\* shares one and for the empty topic.
TopicGateVetoesUnrelatedConsensus ==
    \A i \in 1..Len(calls) :
        LET messages == state.messages
            points ==
                Flatten([m \in 1..Len(messages) |->
                            extract_key_points(messages[m].content)])
            groups == The({group_from(all, 1, {}) : all \in {points}})
            speaking == {messages[m].role : m \in 1..Len(messages)}
            covered(g) ==
                {role \in speaking :
                    \E m \in 1..Len(messages) :
                        /\ messages[m].role = role
                        /\ \E g1 \in 1..Len(groups[g]) :
                               similar(messages[m].content, groups[g][g1])}
            winning ==
                CHOOSE g \in 1..Len(groups) :
                    /\ \A h \in 1..Len(groups) :
                           Cardinality(covered(h)) <= Cardinality(covered(g))
                    /\ \A h \in 1..(g - 1) :
                           Cardinality(covered(h)) < Cardinality(covered(g))
            shared ==
                \E k \in 1..Len(groups[winning]) :
                    Words(groups[winning][k])
                        \cap topic_words(state.topic) # {}
        IN  (/\ calls[i].op = "check_consensus_rule_based"
             /\ Len(messages) >= 3
             /\ Cardinality(covered(winning)) * 100
                    >= calls[i].threshold * Cardinality(speaking))
            => calls[i].returned =
                   Verdict(state.topic = "" \/ shared)

\* ------------------------------------------------------------------------
\* llm_client.py: EnhancedOllamaClient.generate_response
\* ------------------------------------------------------------------------
\* the largest max_retries a client is constructed with
MaxRetries == 3

\* what makes an attempt fail: response.json() raises JSONDecodeError, the
\* status code is not 200, requests.post raises Timeout, ConnectionError,
\* or another exception
Failures == {"json", "status", "timeout", "connection", "exception"}

\* the text of the error string returned for a failure
error_text(failure) ==
    CASE failure = "json" ->
           <<"Error", ": Invalid JSON response from Ollama API">>
      [] failure = "status" ->
           <<"Error", ": Ollama API returned status code ", "500">>
      [] failure = "timeout" ->
           <<"Error", ": Ollama API request timed out after ", "30",
             " seconds">>
      [] failure = "connection" ->
           <<"Error", ": Could not connect to Ollama API at ",
             "http://localhost:11434">>
      [] failure = "exception" -> <<"Error", ": ", "str(e)">>

\* a loop condition that leaves out the last attempt
may_attempt_below_max(self) == self.retries < self.max_retries

\* while retries <= self.max_retries
may_attempt(self) == self.retries <= self.max_retries

\* a client with max_retries from -1, with which the loop is not entered,
\* to MaxRetries, at the head of the loop of generate_response
OllamaInit ==
    /\ roles = RoleList
    /\ hierarchical_mode = FALSE
    /\ deadlock_detection_enabled = FALSE
    /\ role_hierarchy_map = <<>>
    /\ max_turns = MaxTurns
    /\ state = DiscussionState(Topic)
    /\ file = NoFile
    /\ consensus_reached = "False"
    /\ next_speaker_override = ""
    /\ current_role = ""
    /\ pc = "generate_response"
    /\ result = NoResult
    /\ clock = 0
    /\ runs = 0
    /\ speakers = <<>>
    /\ resolved = FALSE
    /\ loaded_turn = 0
    /\ detector = ConsensusDetector("None")
    /\ \E max_retries \in (0 - 1)..MaxRetries :
           ollama = EnhancedOllamaClient(max_retries)
    /\ calls = <<>>

\* what generate_response leaves alone
ollama_unchanged ==
    <<roles, role_hierarchy_map, hierarchical_mode, file, state,
      next_speaker_override, detector>>

\* an attempt with status code 200 and a JSON object: its "response" is
\* returned, the empty string if it has none
PostSucceeds ==
    /\ pc = "generate_response"
    /\ may_attempt(ollama)
    /\ \E text \in {<<"Performance is important.">>, <<>>} :
           /\ calls' = Append(calls, [op |-> "requests.post",
                                      failure |-> "", returned |-> text])
           /\ ollama' = [ollama EXCEPT !.returned = text]
    /\ pc' = "returned"
    /\ UNCHANGED ollama_unchanged
    /\ UNCHANGED <<deadlock_detection_enabled, max_turns, consensus_reached,
                   current_role, result, clock, runs, speakers, resolved,
                   loaded_turn>>

\* an attempt that fails: the last one returns the error string, any
\* other is followed by retries += 1 and the sleep of the backoff
PostFails ==
    /\ pc = "generate_response"
    /\ may_attempt(ollama)
    /\ \E failure \in Failures :
           /\ calls' = Append(calls, [op |-> "requests.post",
                                      failure |-> failure,
                                      returned |-> <<>>])
           /\ IF ollama.retries = ollama.max_retries
              THEN /\ ollama' = [ollama EXCEPT
                                    !.returned = error_text(failure)]
                   /\ pc' = "returned"
              ELSE /\ ollama' = [ollama EXCEPT !.retries = @ + 1]
                   /\ pc' = pc
    /\ UNCHANGED ollama_unchanged
    /\ UNCHANGED <<deadlock_detection_enabled, max_turns, consensus_reached,
                   current_role, result, clock, runs, speakers, resolved,
                   loaded_turn>>

\* the loop condition is false: the return after the loop
RetriesExceeded ==
    /\ pc = "generate_response"
    /\ ~may_attempt(ollama)
    /\ ollama' = [ollama EXCEPT
                     !.returned = <<"Error", ": Maximum retries exceeded">>]
    /\ pc' = "returned"
    /\ UNCHANGED calls
    /\ UNCHANGED ollama_unchanged
    /\ UNCHANGED <<deadlock_detection_enabled, max_turns, consensus_reached,
                   current_role, result, clock, runs, speakers, resolved,
                   loaded_turn>>

OllamaNext ==
    \/ PostSucceeds
    \/ PostFails
    \/ RetriesExceeded

OllamaSpec == OllamaInit /\ [][OllamaNext]_vars

FailureNext ==
    \/ StartRun
    \/ ResolveDeadlock
    \/ NoDeadlock
    \/ Speak
    \/ GenerationFails
    \/ HandleEscalation
    \/ NoEscalation
    \/ CheckConsensus
    \/ CompressContext
    \/ Return

FailureSpec == Init /\ [][FailureNext]_vars

\* C25: a turn for which the LLM collaborator returns its error string is
\* a turn like any other: the string is appended as the message of the
\* speaker of the turn, turn grows by one, the state is saved, and the
\* iteration goes on to the escalation and consensus checks and from
\* there to the head of the loop; nothing is raised.
ErrorReplyIsATurn ==
    [][LET before == state.messages
           after == state'.messages
       IN  /\ GenerationFails
              => /\ after = Append(before, after[Len(after)])
                 /\ after[Len(after)].role = NextSpeaker
                 /\ after[Len(after)].content = "err"
                 /\ state'.turn = state.turn + 1
                 /\ ~load_state_raises(file')
                 /\ load_state(file').messages = after
                 /\ load_state(file').turn = state'.turn
                 /\ pc' = "escalation"
           /\ (/\ pc = "consensus"
               /\ before[Len(before)].content = "err")
              => pc' \in {"loop", "compress"}
           /\ pc' # "raised"]_vars

\* a participant spoke after a turn that holds the error string
ErrorReplyIsATurnWitness ==
    \E i \in 1..(Len(state.messages) - 1) :
        /\ state.messages[i].content = "err"
        /\ state.messages[i + 1].role \in RoleNames(roles)
        /\ state.turn = ParticipantCount(state.messages)

EscalationInit ==
    LET EscalationRoleLists ==
            {<< [role |-> "dev", hierarchy_level |-> 2,
                 superior |-> dev_superior, subordinates |-> <<>>],
                [role |-> "lead", hierarchy_level |-> 1, superior |-> "",
                 subordinates |-> lead_subordinates],
                [role |-> "qa", hierarchy_level |-> 0,
                 superior |-> qa_superior, subordinates |-> <<>>] >> :
             dev_superior \in {"", "lead", "cto"},
             lead_subordinates \in {<<>>, <<"qa">>},
             qa_superior \in {"", "dev"}}
        EscalationHistories ==
            UNION {[1..n -> {"dev", "lead", "ghost"} \X {"perf", "esc"}] :
                   n \in 0..2}
        EscalationStates ==
            {[DiscussionState(Topic) EXCEPT
                 !.messages = [i \in DOMAIN history |->
                                  Message(history[i][1], history[i][2],
                                          i - 1)],
                 !.turn = IF flagged THEN 2 ELSE 0,
                 !.summary = IF flagged THEN <<2>> ELSE <<>>,
                 !.consensus_reached = IF flagged THEN "True" ELSE "False",
                 !.deadlock_detected = flagged,
                 !.deadlock_resolution_applied = flagged] :
             history \in EscalationHistories, flagged \in BOOLEAN}
    IN  /\ roles \in EscalationRoleLists
        /\ hierarchical_mode \in BOOLEAN
        /\ deadlock_detection_enabled = FALSE
        /\ role_hierarchy_map =
               initial_hierarchy_map(roles, hierarchical_mode)
        /\ max_turns = MaxTurns
        /\ state \in EscalationStates
        /\ file = save_state(state, roles)
        /\ consensus_reached = "False"
        /\ next_speaker_override = ""
        /\ current_role = ""
        /\ pc = "client"
        /\ result = NoResult
        /\ clock = Len(state.messages)
        /\ runs = 0
        /\ speakers = <<>>
        /\ resolved = FALSE
        /\ loaded_turn = 0
        /\ detector = ConsensusDetector("None")
        /\ ollama = EnhancedOllamaClient(DefaultMaxRetries)
        /\ calls = <<>>

\* the client calls handle_escalation with the name of a role of the
\* engine or with a name the engine does not know
CallHandleEscalationByName ==
    /\ Len(calls) < MaxChecks
    /\ \E role_name \in RoleNames(roles) \cup {"ghost"} :
         HandleEscalationCall(role_name)

EscalationSpec == EscalationInit /\ [][CallHandleEscalationByName]_vars

\* C27: in hierarchical mode, handle_escalation for a role with a
\* recorded superior appends exactly one "System" message to the persisted
\* state and sets the next-speaker override to that superior; turn, the
\* flags, the summary and all earlier messages are unchanged.
HandleEscalationFrame ==
    [][LET call == calls'[Len(calls')]
           superior == superior_of(role_hierarchy_map, call.role_name)
           before == load_state(file)
           after == load_state(file')
           n == Len(before.messages)
       IN  (/\ Len(calls') = Len(calls) + 1
            /\ call.op = "handle_escalation"
            /\ hierarchical_mode
            /\ superior # "")
           => /\ call.returned = superior
              /\ next_speaker_override' = superior
              /\ ~load_state_raises(file')
              /\ Len(after.messages) = n + 1
              /\ after.messages[n + 1].role = "System"
              /\ SubSeq(after.messages, 1, n) = before.messages
              /\ after.turn = before.turn
              /\ after.consensus_reached = before.consensus_reached
              /\ after.deadlock_detected = before.deadlock_detected
              /\ after.deadlock_resolution_applied
                     = before.deadlock_resolution_applied
              /\ after.summary = before.summary]_vars

\* qa, whose superior is recorded only through the subordinates of lead,
\* escalated on a record with two messages and all flags set
HandleEscalationFrameWitness ==
    /\ calls # <<>>
    /\ calls[Len(calls)] = [op |-> "handle_escalation", role_name |-> "qa",
                            returned |-> "lead"]
    /\ next_speaker_override = "lead"
    /\ LET stored == load_state(file)
       IN  /\ Len(stored.messages) = 3
           /\ stored.messages[3].role = "System"
           /\ stored.deadlock_detected
           /\ stored.consensus_reached = "True"
           /\ stored.turn = 2

\* C28: escalation is a no-op when it cannot apply.  In flat mode, for a
\* name that is not a role of the engine, and for a role without a
\* recorded superior, detect_escalation returns False, and
\* handle_escalation reports escalated False and leaves the persisted
\* state and the override as they are.
EscalationNoOpWhenInapplicable ==
    [][LET call == calls'[Len(calls')]
           cannot_apply(role_name) ==
               \/ ~hierarchical_mode
               \/ role_name \notin RoleNames(roles)
               \/ superior_of(role_hierarchy_map, role_name) = ""
       IN  /\ \A role_name \in RoleNames(roles) \cup {"ghost"} :
                cannot_apply(role_name)
                => \A stored \in {load_state(file), load_state(file')} :
                       ~detect_escalation(stored, role_name,
                                          role_hierarchy_map,
                                          hierarchical_mode)
           /\ (/\ Len(calls') = Len(calls) + 1
               /\ call.op = "handle_escalation"
               /\ cannot_apply(call.role_name))
              => /\ call.returned = ""
                 /\ file' = file
                 /\ next_speaker_override' = next_speaker_override]_vars

\* in hierarchical mode the client called handle_escalation for a name
\* the engine does not know and for a role without a superior, each of
\* which has a message with an escalation keyword in the record
EscalationNoOpWhenInapplicableWitness ==
    /\ hierarchical_mode
    /\ Len(calls) = 2
    /\ calls[1] = [op |-> "handle_escalation", role_name |-> "ghost",
                   returned |-> ""]
    /\ calls[2] = [op |-> "handle_escalation", role_name |-> "lead",
                   returned |-> ""]
    /\ LET stored == load_state(file)
       IN  /\ Len(stored.messages) = 2
           /\ stored.messages[1] = Message("ghost", "esc", 0)
           /\ stored.messages[2] = Message("lead", "esc", 1)
    /\ next_speaker_override = ""

\* ------------------------------------------------------------------------
\* Hierarchical runs with roles that declare no hierarchy fields
\* ------------------------------------------------------------------------
\* a new hierarchical engine for two or seven roles, none of which has a
\* level, a superior or subordinates
UndeclaredInit ==
    LET undeclared(names) ==
            [i \in DOMAIN names |->
                [role |-> names[i], hierarchy_level |-> 0, superior |-> "",
                 subordinates |-> <<>>]]
    IN  /\ roles \in {undeclared(<<"dev", "lead">>),
                      undeclared(<<"r1", "r2", "r3", "r4", "r5", "r6",
                                   "r7">>)}
        /\ hierarchical_mode = TRUE
        /\ deadlock_detection_enabled \in BOOLEAN
        /\ role_hierarchy_map =
               initial_hierarchy_map(roles, hierarchical_mode)
        /\ max_turns = MaxTurns
        /\ file = NoFile
        /\ state = DiscussionState(Topic)
        /\ consensus_reached = "False"
        /\ next_speaker_override = ""
        /\ current_role = ""
        /\ pc = "idle"
        /\ result = NoResult
        /\ clock = 0
        /\ runs = 0
        /\ speakers = <<>>
        /\ resolved = FALSE
        /\ loaded_turn = 0
        /\ detector = ConsensusDetector("None")
        /\ ollama = EnhancedOllamaClient(DefaultMaxRetries)
        /\ calls = <<>>

\* a run long enough for the eighth, ninth and tenth turn of seven roles
StartLongRun == StartRunWith(MaxTurns + 4)

\* the steps of these runs: no role has a superior, so nothing escalates
UndeclaredSpec ==
    UndeclaredInit
    /\ [][\/ StartLongRun
          \/ ResolveDeadlock
          \/ NoDeadlock
          \/ Speak
          \/ NoEscalation
          \/ CheckConsensus
          \/ CompressContext
          \/ Return]_vars

\* C29: in hierarchical mode where no role declares a hierarchy level, a
\* superior or subordinates, the speaker of turn t of run_discussion is
\* roles[t mod len(roles)], as in flat mode.
UndeclaredRolesSpeakRoundRobin ==
    (/\ hierarchical_mode
     /\ \A i \in 1..Len(roles) :
            /\ roles[i].hierarchy_level = 0
            /\ roles[i].superior = ""
            /\ roles[i].subordinates = <<>>)
    => \A t \in 0..(Len(speakers) - 1) :
           speakers[t + 1] = roles[(t % Len(roles)) + 1].role

ContextHoldsRecentMessagesAndSummary ==
    (/\ pc = "speak"
     /\ ~load_state_raises(file)
     /\ NextSpeaker \in RoleNames(roles))
    => LET stored == load_state(file)
           n == Len(stored.messages)
           k == Min2(6, n)
           speaker == roles[CHOOSE i \in 1..Len(roles) :
                                roles[i].role = NextSpeaker]
           context == prepare_context(stored, speaker, hierarchical_mode)
       IN  /\ Len(context.messages) = k
           /\ \A i \in 1..k :
                  /\ context.messages[i].role
                         = stored.messages[n - k + i].role
                  /\ context.messages[i].content
                         = stored.messages[n - k + i].content
           /\ n > 6
              => /\ "summary" \in DOMAIN context
                 /\ context.summary # <<>>

NoDeadlockBelowFourMessages ==
    ~load_state_raises(file)
    => \A stored \in {load_state(file)} :
           Len(stored.messages) < 4 => ~detect_deadlock(stored)

\* a record of three messages with its flags set in which dev repeats
\* itself word for word, which the repetition rule would take for a
\* deadlock
NoDeadlockBelowFourMessagesWitness ==
    /\ pc = "client"
    /\ LET stored == load_state(file)
       IN  /\ Len(stored.messages) = 3
           /\ stored.deadlock_detected
           /\ stored.deadlock_resolution_applied
           /\ stored.messages[1].role = "dev"
           /\ stored.messages[2].role = "dev"
           /\ stored.messages[1].content = stored.messages[2].content
           /\ repetitive_role(stored.messages)
           /\ ~detect_deadlock(stored)
\* C34: resolve_deadlock picks its strategy by the turn of the persisted
\* state modulo 3: the new perspective at 0, the compromise at 1, the
\* reframing at 2.  Resolutions at the same turn post the same text and
\* resolutions at consecutive turns go through the three in this order.
StrategyByTurnModuloThree ==
    [][ResolveDeadlock
       => LET before == load_state(file)
              after == load_state(file')
              posted == after.messages[Len(after.messages)].content
          IN  /\ before.turn % 3 = 0 => posted = "med0"
              /\ before.turn % 3 = 1 => posted = "med1"
              /\ before.turn % 3 = 2 => posted = "med2"]_vars

\* a second resolution at turn 5 has posted the reframing on a record that
\* ends with the reframing of an earlier resolution at the same turn
StrategyByTurnModuloThreeWitness ==
    /\ pc = "speak"
    /\ resolved
    /\ LET stored == load_state(file)
           n == Len(stored.messages)
       IN  /\ stored.turn = 5
           /\ n >= 2
           /\ stored.messages[n].content = "med2"
           /\ stored.messages[n - 1].content = "med2"

\* ------------------------------------------------------------------------
\* The grouping of key points
\* ------------------------------------------------------------------------
\* C35: the groups group_similar_points returns for the key points of a
\* history are a partition of the points: no group is empty and every
\* occurrence of a point is in exactly one group.  The first element of
\* a group is the earliest point that no earlier group holds, and its
\* other members are the points not yet in a group whose similarity to
\* that first element exceeds 0.2, in their order.
GroupsPartitionThePoints ==
    \A points \in {Flatten([m \in 1..Len(state.messages) |->
                               extract_key_points(
                                   state.messages[m].content)])} :
        LET groups == group_similar_points(points)
            occurrences(p, s) == Cardinality({i \in 1..Len(s) : s[i] = p})
            RECURSIVE greedy(_)
            greedy(rest) ==
                IF rest = <<>> THEN <<>>
                ELSE LET close(q) ==
                             calculate_similarity(Head(rest), q)
                                 > GroupThreshold
                     IN  << <<Head(rest)>> \o SelectSeq(Tail(rest), close) >>
                             \o greedy(SelectSeq(Tail(rest),
                                                 LAMBDA q : ~close(q)))
        IN  /\ \A g \in 1..Len(groups) : groups[g] # <<>>
            /\ \A p \in Range(points) :
                   occurrences(p, points) = occurrences(p, Flatten(groups))
            /\ Len(Flatten(groups)) = Len(points)
            /\ groups = greedy(points)

\* the rule-based check ran on a history whose points fall into two
\* groups, the first of which takes its second member from behind the
\* point that leads the second group
GroupsPartitionThePointsWitness ==
    /\ calls # <<>>
    /\ calls[1].op = "check_consensus_rule_based"
    /\ Len(state.messages) = 3
    /\ LET points == Flatten([m \in 1..3 |->
                                 extract_key_points(
                                     state.messages[m].content)])
       IN  /\ points = <<"perf", "sec", "perf">>
           /\ group_similar_points(points) = << <<"perf", "perf">>, <<"sec">> >>

\* ------------------------------------------------------------------------
\* The result record and the persisted record
\* ------------------------------------------------------------------------
\* C36: when run_discussion has returned, its result record agrees with
\* the persisted state of the topic: the same messages in the same order,
\* the same turn count, the same consensus_reached, deadlock_detected and
\* deadlock_resolution_applied.
ResultAgreesWithPersistedState ==
    (pc = "returned" /\ ~load_state_raises(file))
    => LET stored == load_state(file)
       IN  /\ result.discussion
                  = [i \in 1..Len(stored.messages) |->
                        message_to_dict(stored.messages[i])]
           /\ result.turns = stored.turn
           /\ result.consensus_reached = stored.consensus_reached
           /\ result.deadlock_detected = stored.deadlock_detected
           /\ result.deadlock_resolution_applied
                  = stored.deadlock_resolution_applied

\* ------------------------------------------------------------------------
\* Stopping and resuming a run
\* ------------------------------------------------------------------------
\* C37: a run that is stopped after a completed iteration of the loop
\* (the process ends at the head of the loop, or run_discussion returns
\* at its turn limit) and resumed by a new engine on the same state file
\* goes on with the speaker the stopped run would have taken next, also
\* when an escalation override was pending at the stop: the stop leaves
\* the file as it is, and the speaker a new engine takes from the file is
\* the speaker the stopped engine takes from the file and its override.
ResumedRunKeepsTheSpeakers ==
    [][LET head(record) ==
               IF deadlock_detection_enabled /\ detect_deadlock(record)
               THEN resolve_deadlock(record, clock) ELSE record
           stopped_engine ==
               IF hierarchical_mode
               THEN get_next_speaker(head(load_state(file)),
                                     next_speaker_override, roles,
                                     hierarchical_mode)
               ELSE roles[(state.turn % Len(roles)) + 1].role
           new_engine ==
               IF hierarchical_mode
               THEN get_next_speaker(head(load_state(file')), "", roles,
                                     hierarchical_mode)
               ELSE roles[(load_state(file').turn % Len(roles)) + 1].role
       IN  (/\ \/ pc = "loop" /\ LoopCondition /\ Interrupt
               \/ pc = "returned" /\ StartRun /\ LoopCondition'
            /\ ~load_state_raises(file))
           => /\ file' = file
              /\ new_engine = stopped_engine]_vars

\* ------------------------------------------------------------------------
\* Runs of three roles in a chain of superiors
\* ------------------------------------------------------------------------
\* a new hierarchical engine for lead (level 1), dev (level 2) and qa
\* (level 3), listed in another order; the roles name superiors and
\* subordinates, among them names that are no role of the list
ChainInit ==
    /\ roles \in
           {<< [role |-> "dev", hierarchy_level |-> 2, superior |-> above_dev,
                subordinates |-> <<"qa">>],
               [role |-> "lead", hierarchy_level |-> 1, superior |-> "",
                subordinates |-> below_lead],
               [role |-> "qa", hierarchy_level |-> 3, superior |-> above_qa,
                subordinates |-> <<>>] >> :
            above_dev \in {"lead", "cto"},
            below_lead \in {<<"dev">>, <<"ghost">>},
            above_qa \in {"dev", "lead"}}
    /\ hierarchical_mode = TRUE
    /\ deadlock_detection_enabled \in BOOLEAN
    /\ role_hierarchy_map = initial_hierarchy_map(roles, hierarchical_mode)
    /\ max_turns = MaxTurns
    /\ file = NoFile
    /\ state = DiscussionState(Topic)
    /\ consensus_reached = "False"
    /\ next_speaker_override = ""
    /\ current_role = ""
    /\ pc = "idle"
    /\ result = NoResult
    /\ clock = 0
    /\ runs = 0
    /\ speakers = <<>>
    /\ resolved = FALSE
    /\ loaded_turn = 0
    /\ detector = ConsensusDetector("None")
    /\ ollama = EnhancedOllamaClient(DefaultMaxRetries)
    /\ calls = <<>>

ChainSpec == ChainInit /\ [][Next]_vars

\* C38: the speaker of every turn is a role of the engine: what
\* get_next_speaker returns, a pending escalation override included, is
\* the name of one of the roles, so that run_discussion finds the role of
\* the turn; the override itself is never the name of anything else.
SpeakerIsARole ==
    /\ next_speaker_override \in RoleNames(roles) \cup {""}
    /\ Range(speakers) \subseteq RoleNames(roles)
    /\ (pc = "speak" /\ ~load_state_raises(file))
       => get_next_speaker(load_state(file), next_speaker_override, roles,
                           hierarchical_mode) \in RoleNames(roles)

\* dev declares a superior that is no role and has none in the map; it
\* asked for an escalation, qa escalated to dev, and dev is the pending
\* override of the turn to come
SpeakerIsARoleWitness ==
    /\ pc = "speak"
    /\ runs = 1
    /\ roles[1].role = "dev"
    /\ roles[1].superior = "cto"
    /\ role_hierarchy_map["dev"].superior = ""
    /\ next_speaker_override = "dev"
    /\ current_role = "qa"
    /\ \E i \in 1..Len(state.messages) :
           /\ state.messages[i].role = "dev"
           /\ state.messages[i].content = "esc"

\* C39, as stated: in hierarchical mode, when the first len(roles) turns
\* of a fresh discussion are made, every role has spoken exactly once,
\* also when an escalation override fired during that round.
FirstRoundEveryRoleOnce ==
    (/\ hierarchical_mode
     /\ runs = 1
     /\ Len(speakers) >= Len(roles)
     /\ Len(state.messages) = Len(speakers) + 2)
    => \A name \in RoleNames(roles) :
           Cardinality({t \in 1..Len(roles) : speakers[t] = name}) = 1

\* C39, amended: in the first len(roles) turns of a fresh discussion in
\* hierarchical mode the speaker of a turn is the superior of the previous
\* speaker when that speaker's message escalated to it, and otherwise the
\* role that the order of levels gives for the turn; every role has
\* spoken exactly once after these turns when no escalation fired in the
\* first len(roles) - 1 of them.
FirstRoundOnceUnlessEscalated ==
    (/\ hierarchical_mode
     /\ runs = 1
     /\ Len(state.messages) = Len(speakers) + 2)
    => LET n == Len(roles)
           escalated(t) ==
               /\ HasEscalationKeyword(state.messages[t + 2].content)
               /\ superior_of(role_hierarchy_map, speakers[t]) # ""
       IN  /\ \A t \in 1..Min2(n, Len(speakers)) :
                  speakers[t] =
                      IF t > 1 /\ escalated(t - 1)
                      THEN superior_of(role_hierarchy_map, speakers[t - 1])
                      ELSE sorted_roles(roles)[t].role
           /\ (/\ Len(speakers) >= n
               /\ \A t \in 1..(n - 1) : ~escalated(t))
              => \A name \in RoleNames(roles) :
                     Cardinality({t \in 1..n : speakers[t] = name}) = 1

\* the first round is made: dev escalated in the second turn, lead spoke
\* the first and the third turn and qa none
FirstRoundOnceUnlessEscalatedWitness ==
    /\ hierarchical_mode
    /\ runs = 1
    /\ pc = "escalation"
    /\ speakers = <<"lead", "dev", "lead">>
    /\ Len(state.messages) = 5
    /\ state.messages[4].content = "esc"
    /\ role_hierarchy_map["dev"].superior = "lead"

\* ------------------------------------------------------------------------
\* Long hierarchical runs without escalations
\* ------------------------------------------------------------------------
\* a new hierarchical engine for roles without superiors: three roles
\* with every assignment of levels (0 for none), or eight roles that
\* have no level or the levels 1 to 8 in the order of the list
LongRunInit ==
    LET ranked(names, level) ==
            [i \in DOMAIN names |->
                [role |-> names[i], hierarchy_level |-> level[i],
                 superior |-> "", subordinates |-> <<>>]]
        eight == <<"r1", "r2", "r3", "r4", "r5", "r6", "r7", "r8">>
    IN  /\ roles \in
               {ranked(<<"dev", "lead", "qa">>, level) :
                    level \in [1..3 -> {0, 1, 2}]}
               \cup {ranked(eight, [i \in 1..8 |-> 0]),
                     ranked(eight, [i \in 1..8 |-> i])}
        /\ hierarchical_mode = TRUE
        /\ deadlock_detection_enabled \in BOOLEAN
        /\ role_hierarchy_map =
               initial_hierarchy_map(roles, hierarchical_mode)
        /\ max_turns = MaxTurns
        /\ file = NoFile
        /\ state = DiscussionState(Topic)
        /\ consensus_reached = "False"
        /\ next_speaker_override = ""
        /\ current_role = ""
        /\ pc = "idle"
        /\ result = NoResult
        /\ clock = 0
        /\ runs = 0
        /\ speakers = <<>>
        /\ resolved = FALSE
        /\ loaded_turn = 0
        /\ detector = ConsensusDetector("None")
        /\ ollama = EnhancedOllamaClient(DefaultMaxRetries)
        /\ calls = <<>>

\* a run long enough for three rounds of eight roles
StartRunOfRounds == StartRunWith(4 * MaxTurns)

\* a turn for which the LLM collaborator replies with the text on security,
\* on which the consensus check finds no consensus
SpeakOfSecurity == Turn("sec")

\* the steps of these runs: no role has a superior, so nothing escalates
LongRunSpec ==
    LongRunInit
    /\ [][\/ StartRunOfRounds
          \/ ResolveDeadlock
          \/ NoDeadlock
          \/ SpeakOfSecurity
          \/ NoEscalation
          \/ CheckConsensus
          \/ CompressContext
          \/ Return]_vars

\* C40: in a run in hierarchical mode without escalations every role
\* speaks at least once in any 2 * len(roles) consecutive turns, whatever
\* the order of the role list and the levels of the roles are.
NoRoleIsStarved ==
    hierarchical_mode
    => LET n == Len(roles)
       IN  \A first \in 1..(Len(speakers) - 2 * n + 1) :
               \A name \in RoleNames(roles) :
                   \E t \in first..(first + 2 * n - 1) : speakers[t] = name
====
